---- MODULE Spec2Model ----
(***************************************************************************)
(* A model of the ubcc parser (src/src/parse.rs): the recursive-descent    *)
(* statement parser, the Pratt expression parser and the symbol table.     *)
(* The parser's methods are operators over a parser record `self`          *)
(* (lexer, current_token, peeked_token, locals) that return a result       *)
(* record [st, val, err, p]: st is "Ok", "Err" or "Panic", val the value   *)
(* of an Ok, err the message of an Err, p the parser after the call.       *)
(***************************************************************************)
EXTENDS Integers, Sequences, FiniteSets, TLC

VARIABLES
    lexer,          \* Parser.lexer: [input: token sequence, pos: tokens read]
    current_token,  \* Parser.current_token
    peeked_token,   \* Parser.peeked_token
    locals,         \* Parser.locals: sequence of LVar
    statements,     \* the `statements` vector of Parser::parse
    result,         \* the value returned by the entry point that was called
    pc,             \* where the entry point that was called is
    src,            \* the description the input was built from
    stdout,         \* the lines written to standard output
    stderr,         \* the lines written to standard error
    exit_code       \* <<the exit status>> of the process, <<>> while it runs

vars ==
    <<lexer, current_token, peeked_token, locals, statements, result, pc, src,
      stdout, stderr, exit_code>>

\* What the process has written, and its exit status.
io == <<stdout, stderr, exit_code>>

(***************************************************************************)
(* Tokens (lex::Token).  Every token is a record of one shape.             *)
(***************************************************************************)
Tok(t) == [t |-> t, n |-> 0, name |-> ""]

TokInteger(n) == [t |-> "Integer", n |-> n, name |-> ""]

TokIdentifier(name) == [t |-> "Identifier", n |-> 0, name |-> name]

Eof == Tok("Eof")

\* The eleven tokens the infix loop of parse_expression accepts.
BinaryOperatorTokens ==
    {"Assignment", "Plus", "Minus", "Asterisk", "Slash", "Eq", "NotEq",
     "Lt", "Gt", "LtEq", "GtEq"}

\* The seven type keywords parse_statement and parse_type accept.
TypeTokens == {"Void", "Char", "Short", "Int", "Long", "Float", "Double"}

(***************************************************************************)
(* The lexer: a token sequence and a cursor; next() returns the token at   *)
(* the cursor and advances, and returns Eof at and after the end.          *)
(***************************************************************************)
NewLexer(input) == [input |-> input, pos |-> 0]

LexerNext(lx) ==
    IF lx.pos < Len(lx.input)
    THEN [tok |-> lx.input[lx.pos + 1], lx |-> [lx EXCEPT !.pos = @ + 1]]
    ELSE [tok |-> Eof, lx |-> lx]

(***************************************************************************)
(* AST (src/ast/src/lib.rs).                                               *)
(***************************************************************************)
None == [kind |-> "None"]

Primitive(t) == [kind |-> "Primitive", t |-> t]

Pointer(ty) == [kind |-> "Pointer", of |-> ty]

Array(ty, size) == [kind |-> "Array", of |-> ty, size |-> size]

ExprInteger(n) == [kind |-> "Integer", n |-> n]

LocalVariable(name, offset, type_) ==
    [kind |-> "LocalVariable", name |-> name, offset |-> offset, type_ |-> type_]

Binary(lhs, op, rhs) == [kind |-> "Binary", lhs |-> lhs, op |-> op, rhs |-> rhs]

Unary(expr, op) == [kind |-> "Unary", expr |-> expr, op |-> op]

Call(callee_name, arguments) ==
    [kind |-> "Call", callee_name |-> callee_name, arguments |-> arguments]

StmtExpression(e) == [kind |-> "Expression", expr |-> e]

StmtReturn(e) == [kind |-> "Return", expr |-> e]

StmtBlock(stmts) == [kind |-> "Block", body |-> stmts]

StmtIf(condition, consequence, alternative) ==
    [kind |-> "If", condition |-> condition, consequence |-> consequence,
     alternative |-> alternative]

StmtWhile(condition, body) ==
    [kind |-> "While", condition |-> condition, body |-> body]

StmtFor(init, condition, post, body) ==
    [kind |-> "For", init |-> init, condition |-> condition, post |-> post,
     body |-> body]

FunctionDefinition(name, arguments, body) ==
    [kind |-> "FunctionDefinition", name |-> name, arguments |-> arguments,
     body |-> body]

InitDeclaration(name, offset, type_, init) ==
    [kind |-> "InitDeclaration", name |-> name, offset |-> offset,
     type_ |-> type_, init |-> init]

Program(stmts) == [kind |-> "Program", statements |-> stmts]

LVar(name, offset, type_) == [name |-> name, offset |-> offset, type_ |-> type_]

(***************************************************************************)
(* Results: Result<T, String>, plus the panic of the infix loop.           *)
(***************************************************************************)
Ok(p, v) == [st |-> "Ok", val |-> v, err |-> <<>>, p |-> p]

\* format!(msg, arg): the message is kept as the pair <<msg, arg>>.
Err(p, msg, arg) == [st |-> "Err", val |-> None, err |-> <<msg, arg>>, p |-> p]

Panic(p) == [st |-> "Panic", val |-> None, err |-> <<>>, p |-> p]

(***************************************************************************)
(* enum Precedence, ordered by its derived PartialOrd.                     *)
(***************************************************************************)
Lowest == 0

Assignment == 1

Equals == 2

LessGreater == 3

Sum == 4

Product == 5

(***************************************************************************)
(* Parser::new and Parser::next_token.                                     *)
(***************************************************************************)
NewParser(input) ==
    LET first == LexerNext(NewLexer(input))
        second == LexerNext(first.lx)
    IN  [lexer |-> second.lx, current_token |-> first.tok,
         peeked_token |-> second.tok, locals |-> <<>>]

\* next_token reading the lexer twice: the token after the peek is lost.
next_token_skips(self) ==
    LET r == LexerNext(LexerNext(self.lexer).lx)
    IN  [self EXCEPT !.current_token = self.peeked_token,
                     !.peeked_token = r.tok,
                     !.lexer = r.lx]

next_token(self) ==
    LET r == LexerNext(self.lexer)
    IN  [self EXCEPT !.current_token = self.peeked_token,
                     !.peeked_token = r.tok,
                     !.lexer = r.lx]

\* get_precedence without its Product arm.
get_precedence_no_product(token) ==
    CASE token.t = "Assignment" -> Assignment
      [] token.t \in {"Eq", "NotEq"} -> Equals
      [] token.t \in {"Lt", "LtEq", "Gt", "GtEq"} -> LessGreater
      [] token.t \in {"Plus", "Minus", "Slash", "Asterisk"} -> Sum
      [] OTHER -> Lowest

\* get_precedence binding `(` like a product, as a call operator would.
get_precedence_call(token) ==
    CASE token.t = "Assignment" -> Assignment
      [] token.t \in {"Eq", "NotEq"} -> Equals
      [] token.t \in {"Lt", "LtEq", "Gt", "GtEq"} -> LessGreater
      [] token.t \in {"Plus", "Minus"} -> Sum
      [] token.t \in {"Slash", "Asterisk", "LParen"} -> Product
      [] OTHER -> Lowest

get_precedence(token) ==
    CASE token.t = "Assignment" -> Assignment
      [] token.t \in {"Eq", "NotEq"} -> Equals
      [] token.t \in {"Lt", "LtEq", "Gt", "GtEq"} -> LessGreater
      [] token.t \in {"Plus", "Minus"} -> Sum
      [] token.t \in {"Slash", "Asterisk"} -> Product
      [] OTHER -> Lowest

peek_precedence(self) == get_precedence(self.peeked_token)

(***************************************************************************)
(* Symbol table.                                                           *)
(***************************************************************************)
\* sizeof with the 4-byte int of the unit tests.
sizeof_int4(t) ==
    CASE t.kind = "Primitive" /\ t.t = "Void" -> 0
      [] t.kind = "Primitive" /\ t.t = "Char" -> 1
      [] t.kind = "Primitive" /\ t.t = "Short" -> 2
      [] t.kind = "Primitive" /\ t.t = "Int" -> 4
      [] t.kind = "Primitive" /\ t.t = "Long" -> 8
      [] t.kind = "Primitive" /\ t.t = "Float" -> 4
      [] t.kind = "Primitive" /\ t.t = "Double" -> 8
      [] t.kind = "Pointer" -> 8
      [] t.kind = "Array" -> t.size * 8

sizeof(t) ==
    CASE t.kind = "Primitive" /\ t.t = "Void" -> 0
      [] t.kind = "Primitive" /\ t.t = "Char" -> 1
      [] t.kind = "Primitive" /\ t.t = "Short" -> 2
      [] t.kind = "Primitive" /\ t.t = "Int" -> 8
      [] t.kind = "Primitive" /\ t.t = "Long" -> 8
      [] t.kind = "Primitive" /\ t.t = "Float" -> 4
      [] t.kind = "Primitive" /\ t.t = "Double" -> 8
      [] t.kind = "Pointer" -> 8
      [] t.kind = "Array" -> t.size * 8

\* new_local_var adding the size of the previous local instead of the new one.
new_local_var_prev_size(self, type_, name) ==
    LET offset == IF Len(self.locals) = 0
                  THEN sizeof(type_)
                  ELSE self.locals[Len(self.locals)].offset
                          + sizeof(self.locals[Len(self.locals)].type_)
    IN  Ok([self EXCEPT !.locals = Append(@, LVar(name, offset, type_))],
           LocalVariable(name, offset, type_))

new_local_var(self, type_, name) ==
    LET alloca == sizeof(type_)
        offset == (IF Len(self.locals) = 0
                   THEN 0
                   ELSE self.locals[Len(self.locals)].offset) + alloca
    IN  Ok([self EXCEPT !.locals = Append(@, LVar(name, offset, type_))],
           LocalVariable(name, offset, type_))

\* find_local_var returning the most recent entry of that name.
find_local_var_last(self, name) ==
    LET hits == {i \in 1..Len(self.locals) : self.locals[i].name = name}
    IN  IF hits = {}
        THEN None
        ELSE self.locals[CHOOSE i \in hits : \A j \in hits : i >= j]

\* locals.iter().find(|s| s.name == name): the first entry of that name.
find_local_var(self, name) ==
    LET hits == {i \in 1..Len(self.locals) : self.locals[i].name = name}
    IN  IF hits = {}
        THEN None
        ELSE self.locals[CHOOSE i \in hits : \A j \in hits : i <= j]

(***************************************************************************)
(* The `?` of Rust: an Err (or a panic) of r is returned at once, and      *)
(* otherwise the rest of the function, Rest, runs on r.                    *)
(***************************************************************************)
Try(r, Rest(_)) == IF r.st # "Ok" THEN r ELSE Rest(r)

(***************************************************************************)
(* Expressions.                                                            *)
(***************************************************************************)
RECURSIVE parse_expression(_, _), parse_expression_infix(_, _, _),
          parse_unary_expression(_), parse_binary_expression(_, _),
          parse_grouped_expression(_), parse_call_expression(_, _),
          parse_call_arguments(_, _)

\* parse_identifier_expression taking an unknown name for a fresh int at 0.
parse_identifier_expression_lenient(self, name) ==
    LET v == find_local_var(self, name)
    IN  IF v = None
        THEN Ok(self, LocalVariable(name, 0, Primitive("Int")))
        ELSE Ok(self, LocalVariable(name, v.offset, v.type_))

parse_identifier_expression(self, name) ==
    LET v == find_local_var(self, name)
    IN  IF v = None
        THEN Err(self, "Undefined variable: ", name)
        ELSE Ok(self, LocalVariable(name, v.offset, v.type_))

\* The match on current_token that opens parse_expression.
parse_expression_prefix(self) ==
    CASE self.current_token.t = "Integer" ->
            Ok(self, ExprInteger(self.current_token.n))
      [] self.current_token.t = "LParen" -> parse_grouped_expression(self)
      [] self.current_token.t = "Minus" -> parse_unary_expression(self)
      [] self.current_token.t = "Identifier" ->
            IF self.peeked_token.t = "LParen"
            THEN parse_call_expression(next_token(self), self.current_token.name)
            ELSE parse_identifier_expression(self, self.current_token.name)
      [] OTHER -> Err(self, "Invalid token: ", self.current_token)

parse_expression(self, precedence) ==
    Try(parse_expression_prefix(self),
        LAMBDA prefix : parse_expression_infix(prefix.p, precedence, prefix.val))

\* while peeked_token != Eof && precedence < peek_precedence() { ... }
parse_expression_infix(self, precedence, expr) ==
    IF self.peeked_token # Eof /\ precedence < peek_precedence(self)
    THEN IF self.peeked_token.t \in BinaryOperatorTokens
         THEN Try(parse_binary_expression(next_token(self), expr),
                  LAMBDA r : parse_expression_infix(r.p, precedence, r.val))
         ELSE Panic(self)
    ELSE Ok(self, expr)

\* parse_unary_expression parsing its operand at Lowest.
parse_unary_expression_lowest(self) ==
    Try(parse_expression(next_token(self), Lowest),
        LAMBDA r : Ok(r.p, Unary(r.val, "Minus")))

parse_unary_expression(self) ==
    Try(parse_expression(next_token(self), Product),
        LAMBDA r : Ok(r.p, Unary(r.val, "Minus")))

\* The (op, swap) match with swap false for > and >=.
binary_operator_no_swap(token) ==
    CASE token.t = "Assignment" -> [op |-> "Assignment", swap |-> FALSE]
      [] token.t = "Plus" -> [op |-> "Plus", swap |-> FALSE]
      [] token.t = "Minus" -> [op |-> "Minus", swap |-> FALSE]
      [] token.t = "Asterisk" -> [op |-> "Asterisk", swap |-> FALSE]
      [] token.t = "Slash" -> [op |-> "Slash", swap |-> FALSE]
      [] token.t \in {"Lt", "Gt"} -> [op |-> "Lt", swap |-> FALSE]
      [] token.t \in {"LtEq", "GtEq"} -> [op |-> "LtEq", swap |-> FALSE]
      [] token.t = "Eq" -> [op |-> "Eq", swap |-> FALSE]
      [] token.t = "NotEq" -> [op |-> "NotEq", swap |-> FALSE]
      [] OTHER -> [op |-> "", swap |-> FALSE]

\* The (op, swap) match of parse_binary_expression.
binary_operator(token) ==
    CASE token.t = "Assignment" -> [op |-> "Assignment", swap |-> FALSE]
      [] token.t = "Plus" -> [op |-> "Plus", swap |-> FALSE]
      [] token.t = "Minus" -> [op |-> "Minus", swap |-> FALSE]
      [] token.t = "Asterisk" -> [op |-> "Asterisk", swap |-> FALSE]
      [] token.t = "Slash" -> [op |-> "Slash", swap |-> FALSE]
      [] token.t = "Lt" -> [op |-> "Lt", swap |-> FALSE]
      [] token.t = "Gt" -> [op |-> "Lt", swap |-> TRUE]
      [] token.t = "LtEq" -> [op |-> "LtEq", swap |-> FALSE]
      [] token.t = "GtEq" -> [op |-> "LtEq", swap |-> TRUE]
      [] token.t = "Eq" -> [op |-> "Eq", swap |-> FALSE]
      [] token.t = "NotEq" -> [op |-> "NotEq", swap |-> FALSE]
      [] OTHER -> [op |-> "", swap |-> FALSE]

parse_binary_expression(self, left) ==
    IF binary_operator(self.current_token).op = ""
    THEN Err(self, "Expected binary operator, but got ", self.current_token)
    ELSE Try(parse_expression(next_token(self), get_precedence(self.current_token)),
             LAMBDA right :
                 IF binary_operator(self.current_token).swap
                 THEN Ok(right.p,
                         Binary(right.val, binary_operator(self.current_token).op, left))
                 ELSE Ok(right.p,
                         Binary(left, binary_operator(self.current_token).op, right.val)))

\* parse_grouped_expression without the next_token() that skips ')'.
parse_grouped_expression_keeps_paren(self) ==
    Try(parse_expression(next_token(self), Lowest),
        LAMBDA r :
            IF r.p.peeked_token.t # "RParen"
            THEN Err(r.p, "Expected ')', but got ", r.p.peeked_token)
            ELSE Ok(r.p, r.val))

parse_grouped_expression(self) ==
    Try(parse_expression(next_token(self), Lowest),
        LAMBDA r :
            IF r.p.peeked_token.t # "RParen"
            THEN Err(r.p, "Expected ')', but got ", r.p.peeked_token)
            ELSE Ok(next_token(r.p), r.val))

\* while peeked_token != RParen { next; parse; push; skip a comma }
\* The argument loop of parse_call_expression refusing an argument that no
\* comma separates from the one before.
parse_call_arguments_needs_comma(self, arguments) ==
    IF self.peeked_token.t # "RParen"
    THEN Try(parse_expression(next_token(self), Lowest),
             LAMBDA r :
                 IF r.p.peeked_token.t \in {"Comma", "RParen"}
                 THEN parse_call_arguments(
                          IF r.p.peeked_token.t = "Comma" THEN next_token(r.p) ELSE r.p,
                          Append(arguments, r.val))
                 ELSE Err(r.p, "expected token ',' but got ", r.p.peeked_token))
    ELSE Ok(self, arguments)

parse_call_arguments(self, arguments) ==
    IF self.peeked_token.t # "RParen"
    THEN Try(parse_expression(next_token(self), Lowest),
             LAMBDA r :
                 parse_call_arguments(
                     IF r.p.peeked_token.t = "Comma" THEN next_token(r.p) ELSE r.p,
                     Append(arguments, r.val)))
    ELSE Ok(self, arguments)

\* parse_call_expression looking the callee up in the symbol table.
parse_call_expression_checks_callee(self, callee_name) ==
    IF find_local_var(self, callee_name) = None
    THEN Err(self, "Undefined variable: ", callee_name)
    ELSE Try(parse_call_arguments(self, <<>>),
             LAMBDA r : Ok(next_token(r.p), Call(callee_name, r.val)))

parse_call_expression(self, callee_name) ==
    Try(parse_call_arguments(self, <<>>),
        LAMBDA r : Ok(next_token(r.p), Call(callee_name, r.val)))

(***************************************************************************)
(* Types.                                                                  *)
(***************************************************************************)
RECURSIVE parse_type_pointers(_, _)

\* while current_token == Asterisk { t = Pointer(t); next_token() }
parse_type_pointers(self, t) ==
    IF self.current_token.t = "Asterisk"
    THEN parse_type_pointers(next_token(self), Pointer(t))
    ELSE Ok(self, t)

parse_type(self) ==
    IF self.current_token.t \in TypeTokens
    THEN parse_type_pointers(next_token(self), Primitive(self.current_token.t))
    ELSE Err(self, "Expected type, but got ", self.current_token)

(***************************************************************************)
(* Statements.                                                             *)
(***************************************************************************)
RECURSIVE parse_statement(_), parse_if_statement(_), parse_while_statement(_),
          parse_for_statement(_), parse_for_step(_), parse_block_statement(_),
          parse_block_statements(_, _), parse_function_declaration(_, _),
          parse_function_params(_, _), new_local_vars(_, _, _)

parse_expression_statement(self) ==
    Try(parse_expression(self, Lowest),
        LAMBDA r :
            IF r.p.peeked_token.t \in {"SemiColon", "RParen"}
            THEN Ok(next_token(r.p), StmtExpression(r.val))
            ELSE Err(r.p, "expected token ';' or ')' but got ", r.p.peeked_token))

\* parse_return_statement advancing whatever follows the expression.
parse_return_statement_unchecked(self) ==
    Try(parse_expression(next_token(self), Lowest),
        LAMBDA r : Ok(next_token(r.p), StmtReturn(r.val)))

parse_return_statement(self) ==
    Try(parse_expression(next_token(self), Lowest),
        LAMBDA r :
            IF r.p.peeked_token.t = "SemiColon"
            THEN Ok(next_token(r.p), StmtReturn(r.val))
            ELSE Err(r.p, "expected token ';' but got ", r.p.peeked_token))

\* The match on current_token of parse_variable_declaration, v the result
\* of new_local_var, and the next_token() that follows the match.
parse_variable_initializer(v, type_, name) ==
    CASE v.p.current_token.t = "SemiColon" ->
            Ok(next_token(v.p), InitDeclaration(name, v.val.offset, type_, None))
      [] v.p.current_token.t = "Assignment" ->
            Try(parse_expression(next_token(v.p), Lowest),
                LAMBDA r :
                    Ok(next_token(r.p),
                       InitDeclaration(name, v.val.offset, type_, r.val)))
      [] OTHER -> Err(v.p, "expected token ';' but got ", v.p.current_token)

\* parse_variable_declaration declaring the local after the initializer.
parse_variable_declaration_init_first(self, type_, name) ==
    CASE self.current_token.t = "SemiColon" ->
            Try(new_local_var(self, type_, name),
                LAMBDA v : parse_variable_initializer(v, type_, name))
      [] self.current_token.t = "Assignment" ->
            Try(parse_expression(next_token(self), Lowest),
                LAMBDA r :
                    Try(new_local_var(r.p, type_, name),
                        LAMBDA v :
                            Ok(next_token(v.p),
                               InitDeclaration(name, v.val.offset, type_, r.val))))
      [] OTHER -> Err(self, "expected token ';' but got ", self.current_token)

parse_variable_declaration(self, type_, name) ==
    Try(new_local_var(self, type_, name),
        LAMBDA v : parse_variable_initializer(v, type_, name))

\* The condition in parentheses of parse_if_statement and
\* parse_while_statement: skip the keyword, require '(' and skip it, parse
\* the expression, require ')' as the peeked token and skip it.
parse_condition(self) ==
    IF next_token(self).current_token.t # "LParen"
    THEN Err(next_token(self), "expected token '(' but got ",
             next_token(self).current_token)
    ELSE Try(parse_expression(next_token(next_token(self)), Lowest),
             LAMBDA r :
                 IF r.p.peeked_token.t = "RParen"
                 THEN Ok(next_token(next_token(r.p)), r.val)
                 ELSE Err(r.p, "expected token ')' but got ", r.p.peeked_token))

parse_if_statement(self) ==
    Try(parse_condition(self),
        LAMBDA condition :
            Try(parse_statement(condition.p),
                LAMBDA consequence :
                    IF consequence.p.peeked_token.t = "Else"
                    THEN Try(parse_statement(next_token(next_token(consequence.p))),
                             LAMBDA alternative :
                                 Ok(alternative.p,
                                    StmtIf(condition.val, consequence.val,
                                           alternative.val)))
                    ELSE Ok(consequence.p,
                            StmtIf(condition.val, consequence.val, None))))

parse_while_statement(self) ==
    Try(parse_condition(self),
        LAMBDA condition :
            Try(parse_statement(condition.p),
                LAMBDA body : Ok(body.p, StmtWhile(condition.val, body.val))))

\* The init slot of parse_for_statement, with the next_token() after it.
parse_for_init(self) ==
    IF self.current_token.t = "SemiColon"
    THEN Ok(next_token(self), None)
    ELSE Try(parse_expression_statement(self),
             LAMBDA r : Ok(next_token(r.p), r.val))

\* The `;` that must follow the condition of a for statement.
parse_for_condition_end(p, expr) ==
    IF p.current_token.t = "SemiColon"
    THEN Ok(next_token(p), expr)
    ELSE Err(p, "expected token ';' but got ", p.current_token)

\* The condition slot of parse_for_statement.
parse_for_condition(self) ==
    IF self.current_token.t = "SemiColon"
    THEN Ok(self, None)
    ELSE Try(parse_expression(self, Lowest),
             LAMBDA r : parse_for_condition_end(next_token(r.p), r.val))

\* The step slot of parse_for_statement.
parse_for_step(self) ==
    IF self.current_token.t = "RParen"
    THEN Ok(self, None)
    ELSE Try(parse_statement(self),
             LAMBDA r :
                 IF r.p.current_token.t = "RParen"
                 THEN Ok(next_token(r.p), r.val)
                 ELSE Err(r.p, "expected token ')' but got ", r.p.current_token))

parse_for_statement(self) ==
    IF next_token(self).current_token.t # "LParen"
    THEN Err(next_token(self), "expected token '(' but got ",
             next_token(self).current_token)
    ELSE Try(parse_for_init(next_token(next_token(self))),
             LAMBDA init :
                 Try(parse_for_condition(init.p),
                     LAMBDA condition :
                         Try(parse_for_step(condition.p),
                             LAMBDA step :
                                 Try(parse_statement(step.p),
                                     LAMBDA body :
                                         Ok(body.p,
                                            StmtFor(init.val, condition.val,
                                                    step.val, body.val))))))

\* while current_token != RBrace { push(parse_statement()?); next_token() }
\* parse_block_statements taking the end of the input for the closing brace.
parse_block_statements_stops_at_eof(self, stmts) ==
    IF self.current_token.t # "RBrace" /\ self.current_token # Eof
    THEN Try(parse_statement(self),
             LAMBDA r : parse_block_statements(next_token(r.p), Append(stmts, r.val)))
    ELSE Ok(self, StmtBlock(stmts))

parse_block_statements(self, stmts) ==
    IF self.current_token.t # "RBrace"
    THEN Try(parse_statement(self),
             LAMBDA r : parse_block_statements(next_token(r.p), Append(stmts, r.val)))
    ELSE Ok(self, StmtBlock(stmts))

parse_block_statement(self) == parse_block_statements(next_token(self), <<>>)

\* One parameter, t the result of parse_type: its name, the comma skipped.
parse_function_param(t, params) ==
    IF t.p.current_token.t # "Identifier"
    THEN Err(t.p, "expected identifier but got ", t.p.peeked_token)
    ELSE Ok(IF t.p.peeked_token.t = "Comma" THEN next_token(t.p) ELSE t.p,
            Append(params, [type_ |-> t.val, name |-> t.p.current_token.name]))

\* The parameter loop of parse_function_declaration.
parse_function_params(self, params) ==
    IF self.peeked_token.t # "RParen"
    THEN Try(parse_type(next_token(self)),
             LAMBDA t :
                 Try(parse_function_param(t, params),
                     LAMBDA r : parse_function_params(r.p, r.val)))
    ELSE Ok(self, params)

\* params.iter().map(|(t, name)| self.new_local_var(t, name)).collect()
new_local_vars(self, params, done) ==
    IF params = <<>>
    THEN Ok(self, done)
    ELSE Try(new_local_var(self, Head(params).type_, Head(params).name),
             LAMBDA v : new_local_vars(v.p, Tail(params), Append(done, v.val)))

\* parse_function_body starting every function with an empty symbol table.
parse_function_body_resets_locals(ps, name) ==
    IF ps.p.peeked_token.t # "RParen"
    THEN Err(ps.p, "expected token ')' but got ", ps.p.peeked_token)
    ELSE Try(new_local_vars([next_token(next_token(ps.p)) EXCEPT !.locals = <<>>],
                            ps.val, <<>>),
             LAMBDA params :
                 Try(parse_block_statement(params.p),
                     LAMBDA body :
                         Ok(body.p,
                            FunctionDefinition(name, params.val, body.val.body))))

\* parse_function_declaration after its parameter loop, ps the loop's result.
parse_function_body(ps, name) ==
    IF ps.p.peeked_token.t # "RParen"
    THEN Err(ps.p, "expected token ')' but got ", ps.p.peeked_token)
    ELSE Try(new_local_vars(next_token(next_token(ps.p)), ps.val, <<>>),
             LAMBDA params :
                 Try(parse_block_statement(params.p),
                     LAMBDA body :
                         Ok(body.p,
                            FunctionDefinition(name, params.val, body.val.body))))

parse_function_declaration(self, name) ==
    Try(parse_function_params(self, <<>>),
        LAMBDA ps : parse_function_body(ps, name))

\* The arm of parse_statement for a type keyword, ty the result of parse_type.
parse_declaration(ty) ==
    IF ty.p.current_token.t # "Identifier"
    THEN Err(ty.p, "expected identifier but got ", ty.p.current_token)
    ELSE IF ty.p.peeked_token.t \in {"Assignment", "SemiColon"}
    THEN parse_variable_declaration(next_token(ty.p), ty.val,
                                    ty.p.current_token.name)
    ELSE IF ty.p.peeked_token.t = "LParen"
    THEN parse_function_declaration(next_token(ty.p), ty.p.current_token.name)
    ELSE Err(ty.p, "expected token '=' or '(' but got ", ty.p.current_token)

parse_statement(self) ==
    CASE self.current_token.t = "If" -> parse_if_statement(self)
      [] self.current_token.t = "While" -> parse_while_statement(self)
      [] self.current_token.t = "For" -> parse_for_statement(self)
      [] self.current_token.t = "Return" -> parse_return_statement(self)
      [] self.current_token.t = "LBrace" -> parse_block_statement(self)
      [] self.current_token.t \in TypeTokens ->
            Try(parse_type(self), LAMBDA ty : parse_declaration(ty))
      [] OTHER -> parse_expression_statement(self)

(***************************************************************************)
(* The parser record built from, and written back to, the variables.       *)
(***************************************************************************)
Self ==
    [lexer |-> lexer, current_token |-> current_token,
     peeked_token |-> peeked_token, locals |-> locals]

NoResult == [st |-> "None", val |-> None, err |-> <<>>]

Returned(r) == [st |-> r.st, val |-> r.val, err |-> r.err]

Store(p) ==
    /\ lexer' = p.lexer
    /\ current_token' = p.current_token
    /\ peeked_token' = p.peeked_token
    /\ locals' = p.locals

Construct(input) ==
    LET p == NewParser(input)
    IN  /\ lexer = p.lexer
        /\ current_token = p.current_token
        /\ peeked_token = p.peeked_token
        /\ locals = p.locals
        /\ statements = <<>>
        /\ result = NoResult
        /\ stdout = <<>>
        /\ stderr = <<>>
        /\ exit_code = <<>>

PcOf(st) == CASE st = "Ok" -> "done" [] st = "Err" -> "err" [] OTHER -> "panic"

(***************************************************************************)
(* Expression inputs: token sequences over integer literals.               *)
(***************************************************************************)
MaxOps == 3

MaxParens == 2

TighterOps == {"Plus", "Minus", "Asterisk", "Slash"}

ComparisonOps == {"Lt", "Gt", "LtEq", "GtEq"}

RECURSIVE ChainTokens(_, _)

\* k op1 k+1 op2 k+2 ... : the atoms are the literals k, k+1, ...
ChainTokens(k, ops) ==
    IF ops = <<>>
    THEN <<TokInteger(k)>>
    ELSE <<TokInteger(k), Tok(Head(ops))>> \o ChainTokens(k + 1, Tail(ops))

RECURSIVE Wrap(_, _)

Wrap(tokens, n) ==
    IF n = 0 THEN tokens ELSE <<Tok("LParen")>> \o Wrap(tokens, n - 1) \o <<Tok("RParen")>>

OpSeqs(n) == UNION {[1..m -> BinaryOperatorTokens] : m \in 1..n}

\* Operands of a comparison: an atom, a negated atom, a call, an expression
\* of tighter operators, a parenthesised expression of any operator.
Operands(k) ==
    {<<TokInteger(k)>>,
     <<Tok("Minus"), TokInteger(k)>>,
     <<TokIdentifier("f"), Tok("LParen"), TokInteger(k), Tok("RParen")>>}
    \cup {ChainTokens(k, <<op>>) : op \in TighterOps}
    \cup {Wrap(ChainTokens(k, <<op>>), 1) : op \in {"Assignment", "Eq", "Gt", "Plus"}}

ChainSources == {[form |-> "chain", ops |-> ops] : ops \in OpSeqs(MaxOps)}

CmpSources ==
    {[form |-> "cmp", a |-> a, op |-> op, b |-> b] :
        a \in Operands(1), op \in ComparisonOps, b \in Operands(3)}

ParenSources ==
    {[form |-> "paren", ops |-> ops, n |-> n] :
        ops \in OpSeqs(MaxOps - 1) \cup {<<>>}, n \in 0..MaxParens}

GroupSources ==
    {[form |-> "group", inner |-> inner, op |-> op, left |-> left] :
        inner \in BinaryOperatorTokens, op \in BinaryOperatorTokens,
        left \in BOOLEAN}

RECURSIVE NegChainTokens(_, _, _)

\* The chain i ops[i] i+1 ... with a `-` before the operand `at`.
NegChainTokens(ops, i, at) ==
    (IF i = at THEN <<Tok("Minus")>> ELSE <<>>) \o <<TokInteger(i)>>
    \o (IF i > Len(ops)
        THEN <<>>
        ELSE <<Tok(ops[i])>> \o NegChainTokens(ops, i + 1, at))

\* A chain of binary operators with one operand negated.
UnarySources ==
    UNION {{[form |-> "unary", ops |-> ops, at |-> at] : at \in 1..(Len(ops) + 1)} :
              ops \in OpSeqs(MaxOps - 1)}

\* The most arguments of a call.
MaxArgs == 2

\* The i-th argument of a call: i, i + 10, -i or (i).
CommaArgKinds == {"int", "sum", "neg", "paren"}

CommaArgTokens(kind, i) ==
    CASE kind = "int" -> <<TokInteger(i)>>
      [] kind = "sum" -> <<TokInteger(i), Tok("Plus"), TokInteger(10)>>
      [] kind = "neg" -> <<Tok("Minus"), TokInteger(i)>>
      [] kind = "paren" -> <<Tok("LParen"), TokInteger(i), Tok("RParen")>>

\* f(arg1 sep1 arg2 sep2 ...): after every argument a comma or nothing.
CommaSources ==
    UNION {{[form |-> "commas", kinds |-> kinds, seps |-> seps] :
                kinds \in [1..n -> CommaArgKinds],
                seps \in [1..n -> {"comma", "none"}]} :
           n \in 0..MaxArgs}

RECURSIVE CommaArgsTokens(_, _)

CommaArgsTokens(s, i) ==
    IF i > Len(s.kinds)
    THEN <<>>
    ELSE CommaArgTokens(s.kinds[i], i)
         \o (IF s.seps[i] = "comma" THEN <<Tok("Comma")>> ELSE <<>>)
         \o CommaArgsTokens(s, i + 1)

ExprSources ==
    ChainSources \cup CmpSources \cup ParenSources \cup GroupSources \cup UnarySources
    \cup CommaSources

ExprTokens(s) ==
    CASE s.form = "chain" -> ChainTokens(1, s.ops)
      [] s.form = "cmp" -> s.a \o <<Tok(s.op)>> \o s.b
      [] s.form = "paren" -> Wrap(ChainTokens(1, s.ops), s.n)
      [] s.form = "unary" -> NegChainTokens(s.ops, 1, s.at)
      [] s.form = "commas" ->
            <<TokIdentifier("f"), Tok("LParen")>> \o CommaArgsTokens(s, 1)
            \o <<Tok("RParen")>>
      [] s.form = "group" ->
            IF s.left
            THEN Wrap(ChainTokens(1, <<s.inner>>), 1) \o <<Tok(s.op), TokInteger(3)>>
            ELSE <<TokInteger(3), Tok(s.op)>> \o Wrap(ChainTokens(1, <<s.inner>>), 1)

(***************************************************************************)
(* SpecExpr: a fresh parser on an expression, parse_expression(Lowest)     *)
(* called once.                                                            *)
(***************************************************************************)
InitExpr ==
    /\ src \in ExprSources
    /\ Construct(ExprTokens(src))
    /\ pc = "call"

ParseExpressionCall ==
    /\ pc = "call"
    /\ LET r == parse_expression(Self, Lowest)
       IN  /\ Store(r.p)
           /\ result' = Returned(r)
           /\ pc' = PcOf(r.st)
    /\ UNCHANGED <<statements, src, io>>

NextExpr == ParseExpressionCall

SpecExpr == InitExpr /\ [][NextExpr]_vars

(***************************************************************************)
(* What the claims about expressions say, stated without the parser.       *)
(***************************************************************************)
\* The precedence level of an operator token, low to high.
ClaimLevel(op) ==
    CASE op = "Assignment" -> 1
      [] op \in {"Eq", "NotEq"} -> 2
      [] op \in {"Lt", "LtEq", "Gt", "GtEq"} -> 3
      [] op \in {"Plus", "Minus"} -> 4
      [] op \in {"Asterisk", "Slash"} -> 5

\* The node `l op r` stands for: > and >= are the mirrored < and <=.
ClaimNode(l, op, r) ==
    CASE op = "Gt" -> Binary(r, "Lt", l)
      [] op = "GtEq" -> Binary(r, "LtEq", l)
      [] OTHER -> Binary(l, op, r)

\* The operator of ops[lo..hi-1] applied last: the lowest level, and among
\* equals the rightmost (the operators of one level group to the left).
ChainRoot(ops, lo, hi) ==
    CHOOSE k \in lo..(hi - 1) :
        \A j \in lo..(hi - 1) :
            \/ ClaimLevel(ops[k]) < ClaimLevel(ops[j])
            \/ ClaimLevel(ops[k]) = ClaimLevel(ops[j]) /\ j <= k

RECURSIVE ChainTree(_, _, _)

\* The tree of the chain lo ops[lo] lo+1 ... ops[hi-1] hi.
ChainTree(ops, lo, hi) ==
    IF lo = hi
    THEN ExprInteger(lo)
    ELSE LET k == ChainRoot(ops, lo, hi)
         IN  ClaimNode(ChainTree(ops, lo, k), ops[k], ChainTree(ops, k + 1, hi))

MirrorOp(op) ==
    CASE op = "Gt" -> "Lt" [] op = "Lt" -> "Gt"
      [] op = "GtEq" -> "LtEq" [] op = "LtEq" -> "GtEq"

RECURSIVE OpsIn(_), OpsInAll(_)

\* The binary operators that occur in an expression.
OpsIn(e) ==
    CASE e.kind = "Binary" -> {e.op} \cup OpsIn(e.lhs) \cup OpsIn(e.rhs)
      [] e.kind = "Unary" -> OpsIn(e.expr)
      [] e.kind = "Call" -> OpsInAll(e.arguments)
      [] OTHER -> {}

OpsInAll(es) == IF es = <<>> THEN {} ELSE OpsIn(Head(es)) \cup OpsInAll(Tail(es))

\* enum BinaryOperator
BinaryOperator ==
    {"Assignment", "Plus", "Minus", "Slash", "Asterisk", "Lt", "LtEq", "Eq", "NotEq"}

\* parse_expression(Lowest) of a fresh parser on the tokens.
ParsedExpr(tokens) == parse_expression(NewParser(tokens), Lowest)

Returns == pc # "call"

\* C1: a chain of binary operators over atoms parses to the tree in which
\* an operator of a higher level binds tighter than its neighbours and the
\* operators of one level, `=` included, group to the left.
C1_PrecedenceAndLeftGrouping ==
    (Returns /\ src.form = "chain") =>
        /\ result.st = "Ok"
        /\ result.val = ChainTree(src.ops, 1, Len(src.ops) + 1)
        /\ src.ops = <<"Assignment", "Assignment">> =>
              result.val =
                  Binary(Binary(ExprInteger(1), "Assignment", ExprInteger(2)),
                         "Assignment", ExprInteger(3))

\* 1 * 2 + 3 * 4 has returned Plus(Asterisk(1, 2), Asterisk(3, 4)).
C1_Witness ==
    /\ pc = "done"
    /\ src = [form |-> "chain", ops |-> <<"Asterisk", "Plus", "Asterisk">>]
    /\ result.val =
          Binary(Binary(ExprInteger(1), "Asterisk", ExprInteger(2)), "Plus",
                 Binary(ExprInteger(3), "Asterisk", ExprInteger(4)))

\* C2: `a > b` parses to the tree of `b < a`, and `a >= b` to that of
\* `b <= a` (and so `a < b` to that of `b > a`): Binary(b, Lt, a) and
\* Binary(b, LtEq, a); no operator outside enum BinaryOperator occurs.
C2_GreaterIsMirroredLess ==
    (Returns /\ src.form = "cmp") =>
        LET a == ParsedExpr(src.a).val
            b == ParsedExpr(src.b).val
            mirrored == ParsedExpr(src.b \o <<Tok(MirrorOp(src.op))>> \o src.a)
        IN  /\ result.st = "Ok"
            /\ mirrored.st = "Ok"
            /\ result.val = mirrored.val
            /\ src.op = "Gt" => result.val = Binary(b, "Lt", a)
            /\ src.op = "GtEq" => result.val = Binary(b, "LtEq", a)
            /\ OpsIn(result.val) \subseteq BinaryOperator

\* 1 * 2 >= 3 * 4 has returned LtEq(Asterisk(3, 4), Asterisk(1, 2)).
C2_Witness ==
    /\ pc = "done"
    /\ src.form = "cmp"
    /\ src.op = "GtEq"
    /\ src.a = ChainTokens(1, <<"Asterisk">>)
    /\ src.b = ChainTokens(3, <<"Asterisk">>)
    /\ result.val =
          Binary(Binary(ExprInteger(3), "Asterisk", ExprInteger(4)), "LtEq",
                 Binary(ExprInteger(1), "Asterisk", ExprInteger(2)))

\* C3: an expression in n >= 0 pairs of parentheses parses to the tree of
\* the expression itself, and a parenthesised expression is one operand of
\* the operator next to it, whatever the two precedences are.
C3_ParenthesesLeaveNoNode ==
    /\ (Returns /\ src.form = "paren") =>
          /\ result.st = "Ok"
          /\ result.val = ParsedExpr(ChainTokens(1, src.ops)).val
    /\ (Returns /\ src.form = "group") =>
          LET inner == ClaimNode(ExprInteger(1), src.inner, ExprInteger(2))
          IN  /\ result.st = "Ok"
              /\ result.val =
                    IF src.left
                    THEN ClaimNode(inner, src.op, ExprInteger(3))
                    ELSE ClaimNode(ExprInteger(3), src.op, inner)

\* (1 + 2) * 3 has returned Asterisk(Plus(1, 2), 3).
C3_Witness ==
    /\ pc = "done"
    /\ src = [form |-> "group", inner |-> "Plus", op |-> "Asterisk", left |-> TRUE]
    /\ result.val =
          Binary(Binary(ExprInteger(1), "Plus", ExprInteger(2)), "Asterisk",
                 ExprInteger(3))

(***************************************************************************)
(* SpecLocals: the symbol table under calls of new_local_var, with the     *)
(* types parse_type can return.                                            *)
(***************************************************************************)
MaxLocals == 3

DeclTypes ==
    {Primitive(t) : t \in TypeTokens}
    \cup {Pointer(Primitive("Int")), Pointer(Pointer(Primitive("Int")))}

LocalNames == {"a", "b"}

InitLocals ==
    /\ src = [form |-> "locals"]
    /\ Construct(<<>>)
    /\ pc = "call"

NewLocalVarCall ==
    /\ pc = "call"
    /\ Len(locals) < MaxLocals
    /\ \E type_ \in DeclTypes, name \in LocalNames :
          LET r == new_local_var(Self, type_, name)
          IN  /\ Store(r.p)
              /\ result' = Returned(r)
    /\ UNCHANGED <<statements, pc, src, io>>

NextLocals == NewLocalVarCall

SpecLocals == InitLocals /\ [][NextLocals]_vars

\* size_of as the specification tabulates it.
ClaimSize(t) ==
    CASE t = Primitive("Void") -> 0
      [] t = Primitive("Char") -> 1
      [] t = Primitive("Short") -> 2
      [] t = Primitive("Int") -> 8
      [] t = Primitive("Long") -> 8
      [] t = Primitive("Float") -> 4
      [] t = Primitive("Double") -> 8
      [] t.kind = "Pointer" -> 8

LastOffset(table) == IF table = <<>> THEN 0 ELSE table[Len(table)].offset

MaxItems == 2

MaxParams == 2

RECURSIVE TypeTokensOf(_)

\* The tokens that parse_type reads as the type.
TypeTokensOf(ty) ==
    IF ty.kind = "Pointer"
    THEN TypeTokensOf(ty.of) \o <<Tok("Asterisk")>>
    ELSE <<Tok(ty.t)>>

ProgramTypes == {Primitive(t) : t \in TypeTokens} \cup {Pointer(Primitive("Int"))}

\* The name of the i-th declaration of a program.
ItemName(i) == <<"a", "b", "c", "d">>[i]

\* A statement of a program: a declaration `T x;` or `T x = 0;`, `return 0;`
\* or the expression statement `5;`.
Items ==
    {[k |-> "decl", ty |-> ty, init |-> init] : ty \in ProgramTypes, init \in BOOLEAN}
    \cup {[k |-> "return"], [k |-> "expr"]}

ItemTokens(item, i) ==
    CASE item.k = "decl" ->
            TypeTokensOf(item.ty) \o <<TokIdentifier(ItemName(i))>>
            \o (IF item.init THEN <<Tok("Assignment"), TokInteger(0)>> ELSE <<>>)
            \o <<Tok("SemiColon")>>
      [] item.k = "return" -> <<Tok("Return"), TokInteger(0), Tok("SemiColon")>>
      [] item.k = "expr" -> <<TokInteger(5), Tok("SemiColon")>>

RECURSIVE ItemsTokens(_, _)

ItemsTokens(items, i) ==
    IF i > Len(items)
    THEN <<>>
    ELSE ItemTokens(items[i], i) \o ItemsTokens(items, i + 1)

\* Statements at the top level, in a block, or in the body of a function.
ItemSources ==
    {[form |-> "items", ctx |-> ctx, items |-> items] :
        ctx \in {"top", "block", "func"},
        items \in UNION {[1..n -> Items] : n \in 1..MaxItems}}

RECURSIVE ParamTokens(_, _)

\* T1 p1, T2 p2, ...
ParamTokens(ptys, i) ==
    IF i > Len(ptys)
    THEN <<>>
    ELSE (IF i > 1 THEN <<Tok("Comma")>> ELSE <<>>)
         \o TypeTokensOf(ptys[i]) \o <<TokIdentifier(<<"i", "j", "k">>[i])>>
         \o ParamTokens(ptys, i + 1)

\* int foo(T1 i, ...) { return i; } followed by
\* int main() { T a = foo(10); return 10; } or int main(T a) { return 10; }
FuncSources ==
    {[form |-> "funcs", ptys |-> ptys, lty |-> lty, asparam |-> asparam] :
        ptys \in UNION {[1..n -> ProgramTypes] : n \in 1..MaxParams},
        lty \in ProgramTypes, asparam \in BOOLEAN}

FuncTokens(s) ==
    <<Tok("Int"), TokIdentifier("foo"), Tok("LParen")>> \o ParamTokens(s.ptys, 1)
    \o <<Tok("RParen"), Tok("LBrace"), Tok("Return"), TokIdentifier("i"),
         Tok("SemiColon"), Tok("RBrace")>>
    \o <<Tok("Int"), TokIdentifier("main"), Tok("LParen")>>
    \o (IF s.asparam
        THEN TypeTokensOf(s.lty) \o <<TokIdentifier("a"), Tok("RParen"), Tok("LBrace")>>
        ELSE <<Tok("RParen"), Tok("LBrace")>> \o TypeTokensOf(s.lty)
             \o <<TokIdentifier("a"), Tok("Assignment"), TokIdentifier("foo"),
                  Tok("LParen"), TokInteger(10), Tok("RParen"), Tok("SemiColon")>>)
    \o <<Tok("Return"), TokInteger(10), Tok("SemiColon"), Tok("RBrace")>>

\* A variable x of type fty, then a variable `name` (x again, or y) of type
\* mty and a reference to it:
\*   param:  int foo(fty x) { return x; } int main(mty name) { return name; }
\*   local:  int foo(fty x) { return x; } int main() { mty name = 1; return name; }
\*   redecl: int main() { fty x = 0; mty name = 1; return name; }
ScopeSources ==
    {[form |-> "scopes", how |-> how, fty |-> fty, mty |-> mty, name |-> name] :
        how \in {"param", "local", "redecl"},
        fty \in ProgramTypes, mty \in ProgramTypes, name \in {"x", "y"}}

ScopeTokens(s) ==
    LET foo == <<Tok("Int"), TokIdentifier("foo"), Tok("LParen")>>
               \o TypeTokensOf(s.fty)
               \o <<TokIdentifier("x"), Tok("RParen"), Tok("LBrace"), Tok("Return"),
                    TokIdentifier("x"), Tok("SemiColon"), Tok("RBrace")>>
        main == <<Tok("Int"), TokIdentifier("main"), Tok("LParen")>>
        local == TypeTokensOf(s.mty)
                 \o <<TokIdentifier(s.name), Tok("Assignment"), TokInteger(1),
                      Tok("SemiColon")>>
        ret == <<Tok("Return"), TokIdentifier(s.name), Tok("SemiColon"), Tok("RBrace")>>
    IN  CASE s.how = "param" ->
                foo \o main \o TypeTokensOf(s.mty)
                \o <<TokIdentifier(s.name), Tok("RParen"), Tok("LBrace")>> \o ret
          [] s.how = "local" ->
                foo \o main \o <<Tok("RParen"), Tok("LBrace")>> \o local \o ret
          [] s.how = "redecl" ->
                main \o <<Tok("RParen"), Tok("LBrace")>> \o TypeTokensOf(s.fty)
                \o <<TokIdentifier("x"), Tok("Assignment"), TokInteger(0),
                     Tok("SemiColon")>>
                \o local \o ret

\* The statement `int <name> = 0;`.
DeclZeroTokens(name) ==
    <<Tok("Int"), TokIdentifier(name), Tok("Assignment"), TokInteger(0),
      Tok("SemiColon")>>

\* The places of an identifier in expression position.
IdentifierPlaces ==
    {"stmt", "lhs", "rhs", "assign", "paren", "minus", "return", "init", "arg",
     "if", "while", "for", "block", "func"}

\* A reference to the identifier `name` at place `at`, after nothing, after
\* `5;` or after `int <declared> = 0;`.
UndefSources ==
    {[form |-> "undef", at |-> at, name |-> name, before |-> before,
      declared |-> declared] :
        at \in IdentifierPlaces, name \in {"u", "v"},
        before \in {"none", "expr", "decl"}, declared \in {"u", "v"}}

UndefTokens(s) ==
    LET u == TokIdentifier(s.name)
        semi == Tok("SemiColon")
        ret == <<Tok("Return"), TokInteger(0), semi>>
        use ==
            CASE s.at = "stmt" -> <<u, semi>>
              [] s.at = "lhs" -> <<u, Tok("Plus"), TokInteger(1), semi>>
              [] s.at = "rhs" -> <<TokInteger(1), Tok("Asterisk"), u, semi>>
              [] s.at = "assign" -> <<u, Tok("Assignment"), TokInteger(1), semi>>
              [] s.at = "paren" -> <<Tok("LParen"), u, Tok("RParen"), semi>>
              [] s.at = "minus" -> <<Tok("Minus"), u, semi>>
              [] s.at = "return" -> <<Tok("Return"), u, semi>>
              [] s.at = "init" ->
                    <<Tok("Int"), TokIdentifier("w"), Tok("Assignment"), u, semi>>
              [] s.at = "arg" ->
                    <<TokIdentifier("f"), Tok("LParen"), u, Tok("RParen"), semi>>
              [] s.at = "if" -> <<Tok("If"), Tok("LParen"), u, Tok("RParen")>> \o ret
              [] s.at = "while" ->
                    <<Tok("While"), Tok("LParen"), u, Tok("RParen")>> \o ret
              [] s.at = "for" ->
                    <<Tok("For"), Tok("LParen"), TokInteger(1), semi, u, semi,
                      TokInteger(3), Tok("RParen")>> \o ret
              [] s.at = "block" -> <<Tok("LBrace"), u, semi, Tok("RBrace")>>
              [] s.at = "func" ->
                    <<Tok("Int"), TokIdentifier("main"), Tok("LParen"), Tok("RParen"),
                      Tok("LBrace"), Tok("Return"), u, semi, Tok("RBrace")>>
    IN  (CASE s.before = "none" -> <<>>
           [] s.before = "expr" -> <<TokInteger(5), semi>>
           [] s.before = "decl" -> DeclZeroTokens(s.declared))
        \o use

\* The arguments of a call: 1, 2, a sum, a call, a declared variable.
ArgKinds == {"int", "two", "sum", "call", "var"}

ArgTokens(kind) ==
    CASE kind = "int" -> <<TokInteger(1)>>
      [] kind = "two" -> <<TokInteger(2)>>
      [] kind = "sum" -> <<TokInteger(1), Tok("Plus"), TokInteger(2)>>
      [] kind = "call" ->
            <<TokIdentifier("g"), Tok("LParen"), TokInteger(7), Tok("RParen")>>
      [] kind = "var" -> <<TokIdentifier("a")>>

RECURSIVE ArgsTokens(_, _)

\* arg1, arg2, ...
ArgsTokens(args, i) ==
    IF i > Len(args)
    THEN <<>>
    ELSE (IF i > 1 THEN <<Tok("Comma")>> ELSE <<>>)
         \o ArgTokens(args[i]) \o ArgsTokens(args, i + 1)

\* [int a = 0;] callee(args); return 0;
CallSources ==
    {[form |-> "call", callee |-> callee, args |-> args, decl |-> decl] :
        callee \in {"bar", "a", "main"},
        args \in UNION {[1..n -> ArgKinds] : n \in 0..MaxArgs},
        decl \in BOOLEAN}

CallTokens(s) ==
    (IF s.decl THEN DeclZeroTokens("a") ELSE <<>>)
    \o <<TokIdentifier(s.callee), Tok("LParen")>> \o ArgsTokens(s.args, 1)
    \o <<Tok("RParen"), Tok("SemiColon"), Tok("Return"), TokInteger(0),
         Tok("SemiColon")>>

ProgramSources ==
    ItemSources \cup FuncSources \cup ScopeSources \cup UndefSources \cup CallSources

ProgramTokens(s) ==
    CASE s.form = "funcs" -> FuncTokens(s)
      [] s.form = "scopes" -> ScopeTokens(s)
      [] s.form = "undef" -> UndefTokens(s)
      [] s.form = "call" -> CallTokens(s)
      [] s.form = "items" /\ s.ctx = "top" -> ItemsTokens(s.items, 1)
      [] s.form = "items" /\ s.ctx = "block" ->
            <<Tok("LBrace")>> \o ItemsTokens(s.items, 1) \o <<Tok("RBrace")>>
      [] s.form = "items" /\ s.ctx = "func" ->
            <<Tok("Int"), TokIdentifier("main"), Tok("LParen"), Tok("RParen"),
              Tok("LBrace")>> \o ItemsTokens(s.items, 1) \o <<Tok("RBrace")>>

(***************************************************************************)
(* Spec: Parser::parse on a program, one iteration of its loop a step.     *)
(***************************************************************************)
Init ==
    /\ src \in ProgramSources
    /\ Construct(ProgramTokens(src))
    /\ pc = "loop"

\* statements.push(self.parse_statement()?); self.next_token();
ParseLoop ==
    /\ pc = "loop"
    /\ current_token # Eof
    /\ LET r == parse_statement(Self)
       IN  IF r.st = "Ok"
           THEN /\ Store(next_token(r.p))
                /\ statements' = Append(statements, r.val)
                /\ UNCHANGED <<result, pc>>
           ELSE /\ Store(r.p)
                /\ result' = Returned(r)
                /\ pc' = PcOf(r.st)
                /\ UNCHANGED statements
    /\ UNCHANGED <<src, io>>

\* Ok(Program::new(statements))
ParseReturn ==
    /\ pc = "loop"
    /\ current_token = Eof
    /\ result' = [st |-> "Ok", val |-> Program(statements), err |-> <<>>]
    /\ pc' = "done"
    /\ UNCHANGED <<lexer, current_token, peeked_token, locals, statements, src, io>>

Next == ParseLoop \/ ParseReturn

Spec == Init /\ [][Next]_vars

(***************************************************************************)
(* What the claims about programs say, stated without the parser.          *)
(***************************************************************************)
Finished == pc \in {"done", "err", "panic"}

RECURSIVE ClaimStatements(_, _, _)

\* The statements the items i.. stand for, `last` the offset of the last
\* local declared before them.
ClaimStatements(items, i, last) ==
    IF i > Len(items)
    THEN <<>>
    ELSE CASE items[i].k = "decl" ->
                 <<InitDeclaration(ItemName(i), last + ClaimSize(items[i].ty),
                                   items[i].ty,
                                   IF items[i].init THEN ExprInteger(0) ELSE None)>>
                 \o ClaimStatements(items, i + 1, last + ClaimSize(items[i].ty))
           [] items[i].k = "return" ->
                 <<StmtReturn(ExprInteger(0))>> \o ClaimStatements(items, i + 1, last)
           [] items[i].k = "expr" ->
                 <<StmtExpression(ExprInteger(5))>>
                 \o ClaimStatements(items, i + 1, last)

ClaimProgram(s) ==
    CASE s.ctx = "top" -> Program(ClaimStatements(s.items, 1, 0))
      [] s.ctx = "block" -> Program(<<StmtBlock(ClaimStatements(s.items, 1, 0))>>)
      [] s.ctx = "func" ->
            Program(<<FunctionDefinition("main", <<>>,
                                         ClaimStatements(s.items, 1, 0))>>)

\* A declaration of the program is followed by a statement or by the `}`
\* of the block it is in.
DeclarationIsFollowed(s) ==
    \E i \in 1..Len(s.items) :
        /\ s.items[i].k = "decl"
        /\ i < Len(s.items) \/ s.ctx # "top"

\* C4: a declaration `T x;` or `T x = e;` consumes its tokens up to and
\* including its `;`: the statement after it is parsed from its first
\* token, and the `}` of the enclosing block is not skipped.
C4_DeclarationConsumesThroughSemicolon ==
    (Finished /\ src.form = "items" /\ DeclarationIsFollowed(src)) =>
        /\ pc = "done"
        /\ result.val = ClaimProgram(src)

\* The statements of the block, the function body or the program the items
\* were parsed into.
ParsedItems(s, program) ==
    IF s.ctx = "top" THEN program.statements ELSE program.statements[1].body

ConsecutiveDeclarations(stmts) ==
    {i \in 1..(Len(stmts) - 1) :
        stmts[i].kind = "InitDeclaration" /\ stmts[i + 1].kind = "InitDeclaration"}

FirstOfMain(s, program) ==
    IF s.asparam
    THEN program.statements[2].arguments[1]
    ELSE program.statements[2].body[1]

\* The last parameter of foo in a program of two functions.
LastOfFoo(s, program) == program.statements[1].arguments[Len(s.ptys)]

\* C9: the symbol table is only appended to during parse(): a function
\* definition does not reset it, and the first parameter or local of the
\* later function gets the offset of the last local parsed before it plus
\* its size (for int foo(int i) and int a in main, a is above i).
C9_SymbolTableIsFlat ==
    /\ []((pc = "done" /\ src.form = "funcs") =>
            /\ FirstOfMain(src, result.val).offset =
                  LastOfFoo(src, result.val).offset + ClaimSize(src.lty)
            /\ (src.ptys = <<Primitive("Int")>> /\ src.lty = Primitive("Int")) =>
                  FirstOfMain(src, result.val).offset
                      > LastOfFoo(src, result.val).offset)
    /\ [][/\ Len(locals') >= Len(locals)
          /\ SubSeq(locals', 1, Len(locals)) = locals]_vars

\* int foo(int i) { return i; } int main() { int a = foo(10); return 10; }
\* was parsed: the table holds i at 8 and a at 16.
C9_Witness ==
    /\ pc = "done"
    /\ src = [form |-> "funcs", ptys |-> <<Primitive("Int")>>,
              lty |-> Primitive("Int"), asparam |-> FALSE]
    /\ locals = <<LVar("i", 8, Primitive("Int")), LVar("a", 16, Primitive("Int"))>>
    /\ result.val.statements[2].body[1] =
          InitDeclaration("a", 16, Primitive("Int"),
                          Call("foo", <<ExprInteger(10)>>))

\* C10: offsets are per function: the first parameter or local of every
\* function definition gets the size of its type as its offset, whatever
\* was parsed before it (i at 8 in foo and a at 8 in main).
C10_OffsetsRestartPerFunction ==
    (pc = "done" /\ src.form = "funcs") =>
        /\ result.val.statements[1].arguments[1].offset = ClaimSize(src.ptys[1])
        /\ FirstOfMain(src, result.val).offset = ClaimSize(src.lty)

(***************************************************************************)
(* Statement inputs, and SpecStmt: a fresh parser on a statement and what  *)
(* follows it, parse_statement called once.                                *)
(***************************************************************************)
ReturnZero == <<Tok("Return"), TokInteger(0), Tok("SemiColon")>>

\* The body of a for statement.
BodyTokens(body) ==
    CASE body = "return" -> ReturnZero
      [] body = "expr" -> <<TokInteger(5), Tok("SemiColon")>>
      [] body = "block" -> <<Tok("LBrace"), Tok("RBrace")>>

\* for (1; 2; 3) body, each of the three slots present or absent.
ForSources ==
    {[form |-> "for", init |-> init, cond |-> cond, post |-> post, body |-> body] :
        init \in BOOLEAN, cond \in BOOLEAN, post \in BOOLEAN,
        body \in {"return", "expr", "block"}}

ForTokens(s) ==
    <<Tok("For"), Tok("LParen")>>
    \o (IF s.init THEN <<TokInteger(1)>> ELSE <<>>) \o <<Tok("SemiColon")>>
    \o (IF s.cond THEN <<TokInteger(2)>> ELSE <<>>) \o <<Tok("SemiColon")>>
    \o (IF s.post THEN <<TokInteger(3)>> ELSE <<>>) \o <<Tok("RParen")>>
    \o BodyTokens(s.body)

\* A statement up to, and without, its terminating token.
Heads ==
    {<<TokInteger(5)>>,
     <<TokInteger(1), Tok("Plus"), TokInteger(2)>>,
     <<Tok("Return"), TokInteger(5)>>,
     <<Tok("LBrace"), Tok("Return"), TokInteger(0), Tok("SemiColon")>>,
     <<Tok("Int"), TokIdentifier("f"), Tok("LParen"), Tok("RParen"),
       Tok("LBrace"), Tok("Return"), TokInteger(0), Tok("SemiColon")>>,
     <<Tok("Int"), TokIdentifier("foo"), Tok("LParen"), Tok("Int"),
       TokIdentifier("a"), Tok("Comma"), Tok("Int"), TokIdentifier("b"),
       Tok("RParen"), Tok("LBrace"), Tok("Return"), TokInteger(0), Tok("SemiColon")>>,
     <<Tok("Int"), Tok("Asterisk"), Tok("Asterisk"), TokIdentifier("i")>>}
    \cup {TypeTokensOf(ty) \o <<TokIdentifier("x")>> : ty \in ProgramTypes}
    \cup {TypeTokensOf(ty) \o <<TokIdentifier("x"), Tok("Assignment"), TokInteger(0)>> :
             ty \in ProgramTypes}

\* The token after the head: the terminator, or something else.
NextTokens ==
    {<<Tok("SemiColon")>>, <<Tok("RBrace")>>, <<Tok("RParen")>>, <<TokInteger(7)>>,
     <<>>}

\* A head, the token after it, and then `return 0;` or nothing.
StmtSources ==
    {[form |-> "stmt", head |-> head, next |-> next, rest |-> rest] :
        head \in Heads, next \in NextTokens, rest \in {<<>>, ReturnZero}}

\* The expressions of a return statement.
ReturnKinds == {"int", "sum", "paren", "minus", "call"}

ReturnExprTokens(kind) ==
    CASE kind = "int" -> <<TokInteger(5)>>
      [] kind = "sum" -> <<TokInteger(1), Tok("Plus"), TokInteger(2)>>
      [] kind = "paren" -> <<Tok("LParen"), TokInteger(5), Tok("RParen")>>
      [] kind = "minus" -> <<Tok("Minus"), TokInteger(5)>>
      [] kind = "call" -> <<TokIdentifier("f"), Tok("LParen"), Tok("RParen")>>

\* The token after the expression of a return statement, <<>> for Eof.
AfterReturn ==
    {<<Tok(t)>> : t \in {"SemiColon", "RBrace", "RParen", "LParen", "LBrace", "Comma",
                         "Return", "Int", "Plus", "Assignment", "Lt"}}
    \cup {<<TokInteger(7)>>, <<TokIdentifier("f")>>, <<>>}

\* return e <next> and then `return 0;` or nothing.
ReturnSources ==
    {[form |-> "ret", e |-> e, next |-> next, rest |-> rest] :
        e \in ReturnKinds, next \in AfterReturn, rest \in {<<>>, ReturnZero}}

StatementSources == ForSources \cup StmtSources \cup ReturnSources

StatementTokens(s) ==
    CASE s.form = "for" -> ForTokens(s)
      [] s.form = "ret" -> <<Tok("Return")>> \o ReturnExprTokens(s.e) \o s.next \o s.rest
      [] s.form = "stmt" -> s.head \o s.next \o s.rest

InitStmt ==
    /\ src \in StatementSources
    /\ Construct(StatementTokens(src))
    /\ pc = "call"

ParseStatementCall ==
    /\ pc = "call"
    /\ LET r == parse_statement(Self)
       IN  /\ Store(r.p)
           /\ result' = Returned(r)
           /\ pc' = PcOf(r.st)
    /\ UNCHANGED <<statements, src, io>>

NextStmt == ParseStatementCall

SpecStmt == InitStmt /\ [][NextStmt]_vars

\* C5: a for statement parses with every combination of present and absent
\* header slots, to a For node with None in exactly the absent slots.
C5_ForAcceptsEverySlotCombination ==
    (Returns /\ src.form = "for") =>
        /\ result.st = "Ok"
        /\ result.val =
              StmtFor(IF src.init THEN StmtExpression(ExprInteger(1)) ELSE None,
                      IF src.cond THEN ExprInteger(2) ELSE None,
                      IF src.post THEN StmtExpression(ExprInteger(3)) ELSE None,
                      CASE src.body = "return" -> StmtReturn(ExprInteger(0))
                        [] src.body = "expr" -> StmtExpression(ExprInteger(5))
                        [] src.body = "block" -> StmtBlock(<<>>))

\* The tokens from current_token on: the lookahead window and what the
\* lexer has not returned yet.
Ahead ==
    SelectSeq(<<current_token, peeked_token>>
                  \o SubSeq(lexer.input, lexer.pos + 1, Len(lexer.input)),
              LAMBDA t : t # Eof)

\* C6: when parse_statement returns Ok, the statement's last expression or
\* declarator token was followed by its `;` (`}` for a block or a function
\* definition), and current_token is that terminator.
C6_CursorRestsOnTerminator ==
    (Returns /\ src.form = "stmt" /\ result.st = "Ok") =>
        /\ src.next = IF src.head[Len(src.head)] = Tok("SemiColon")
                      THEN <<Tok("RBrace")>>
                      ELSE <<Tok("SemiColon")>>
        /\ Ahead = src.next \o src.rest

\* The function definition of main in a program of ScopeSources, the variable
\* it declares and the expression it returns.
ScopeMain(s, program) == program.statements[IF s.how = "redecl" THEN 1 ELSE 2]

ScopeDeclared(s, program) ==
    LET main == ScopeMain(s, program)
        d == CASE s.how = "param" -> main.arguments[1]
               [] s.how = "local" -> main.body[1]
               [] s.how = "redecl" -> main.body[2]
    IN  [name |-> d.name, offset |-> d.offset, type_ |-> d.type_]

ScopeReturned(s, program) ==
    LET main == ScopeMain(s, program)
    IN  main.body[Len(main.body)].expr

\* C11: the LocalVariable that main returns has the name, offset and type of
\* the parameter or local that main itself declares, never those of foo's
\* parameter, also when both are named x.
C11_LocalVariableIsOfSameScope ==
    (pc = "done" /\ src.form = "scopes" /\ src.how # "redecl") =>
        LET d == ScopeDeclared(src, result.val)
        IN  ScopeReturned(src, result.val) = LocalVariable(d.name, d.offset, d.type_)

UndefIsDeclared(s) == s.before = "decl" /\ s.declared = s.name

\* C13: a reference to a name that is not in the symbol table makes parse
\* return Err "Undefined variable: <name>", and no Program.
C13_UndefinedIdentifierFails ==
    (Finished /\ src.form = "undef" /\ ~UndefIsDeclared(src)) =>
        /\ pc = "err"
        /\ result = [st |-> "Err", val |-> None,
                     err |-> <<"Undefined variable: ", src.name>>]

\* `a;`-like input: the lone statement `u;` failed, and so did `return u;`
\* after the declaration of another name.
C13_Witness ==
    /\ pc = "err"
    /\ src.form = "undef"
    /\ \/ src.at = "stmt" /\ src.before = "none"
       \/ src.at = "return" /\ src.before = "decl" /\ src.declared # src.name
    /\ result.err = <<"Undefined variable: ", src.name>>

\* The expression an argument of a call stands for.
ClaimArg(kind) ==
    CASE kind = "int" -> ExprInteger(1)
      [] kind = "two" -> ExprInteger(2)
      [] kind = "sum" -> Binary(ExprInteger(1), "Plus", ExprInteger(2))
      [] kind = "call" -> Call("g", <<ExprInteger(7)>>)
      [] kind = "var" -> LocalVariable("a", 8, Primitive("Int"))

\* Every argument of the call parses: a variable argument is declared.
CallIsWellFormed(s) == s.decl \/ \A i \in 1..Len(s.args) : s.args[i] # "var"

\* C14: `callee(args); return 0;` parses for any callee name, declared or
\* not, to Expression(Call(callee, args in source order)) and Return(0), and
\* the symbol table holds what it held before the call.
C14_CallDoesNotConsultSymbolTable ==
    (Finished /\ src.form = "call" /\ CallIsWellFormed(src)) =>
        LET before == IF src.decl THEN <<LVar("a", 8, Primitive("Int"))>> ELSE <<>>
            declaration ==
                IF src.decl
                THEN <<InitDeclaration("a", 8, Primitive("Int"), ExprInteger(0))>>
                ELSE <<>>
        IN  /\ pc = "done"
            /\ locals = before
            /\ result.val =
                  Program(declaration
                          \o <<StmtExpression(
                                   Call(src.callee,
                                        [i \in 1..Len(src.args) |-> ClaimArg(src.args[i])])),
                               StmtReturn(ExprInteger(0))>>)

\* `bar(1, 2); return 0;` was parsed with no declaration at all.
C14_Witness ==
    /\ pc = "done"
    /\ src.form = "call"
    /\ ~src.decl
    /\ locals = <<>>
    /\ result.val =
          Program(<<StmtExpression(
                        Call("bar", <<ExprInteger(1), ExprInteger(2)>>)),
                    StmtReturn(ExprInteger(0))>>)

\* The expression a return statement of ReturnSources returns.
ClaimReturnExpr(kind) ==
    CASE kind = "int" -> ExprInteger(5)
      [] kind = "sum" -> Binary(ExprInteger(1), "Plus", ExprInteger(2))
      [] kind = "paren" -> ExprInteger(5)
      [] kind = "minus" -> Unary(ExprInteger(5), "Minus")
      [] kind = "call" -> Call("f", <<>>)

\* C15: parse_return_statement returns Ok, and then Return(e), exactly when
\* the token after the expression is `;`; after any other token, Eof
\* included, it returns Err and no statement.
C15_ReturnNeedsSemicolon ==
    (Returns /\ src.form = "ret") =>
        IF src.next = <<Tok("SemiColon")>>
        THEN /\ result.st = "Ok"
             /\ result.val = StmtReturn(ClaimReturnExpr(src.e))
        ELSE /\ result.st = "Err"
             /\ result.val = None

\* `return 5` ran into Eof and failed.
C15_Witness ==
    /\ Returns
    /\ src.form = "ret"
    /\ src.e = "int"
    /\ src.next = <<>>
    /\ src.rest = <<>>
    /\ result.st = "Err"
    /\ result.err = <<"expected token ';' but got ", Eof>>

\* C16: the arguments of foo are LocalVariables, one per declared parameter
\* in source order, each of the declared name and type, and the offset of
\* every parameter is greater than the offset of the one before it.
C16_ArgumentsAscend ==
    (pc = "done" /\ src.form = "funcs") =>
        LET arguments == result.val.statements[1].arguments
        IN  /\ Len(arguments) = Len(src.ptys)
            /\ \A i \in 1..Len(arguments) :
                  /\ arguments[i].kind = "LocalVariable"
                  /\ arguments[i].name = <<"i", "j", "k">>[i]
                  /\ arguments[i].type_ = src.ptys[i]
            /\ \A i \in 1..(Len(arguments) - 1) :
                  arguments[i + 1].offset > arguments[i].offset

\* C17: on a fresh parser a declared `int` gets offset 4, the parameters of
\* foo(int a, int b) get 4 and 8, and a declared pointer gets offset 8.
C17_IntTakesFourBytes ==
    (Returns /\ src.form = "stmt" /\ result.st = "Ok") =>
        /\ (result.val.kind = "InitDeclaration" /\ result.val.type_ = Primitive("Int"))
              => result.val.offset = 4
        /\ (result.val.kind = "InitDeclaration" /\ result.val.type_.kind = "Pointer")
              => result.val.offset = 8
        /\ (result.val.kind = "FunctionDefinition" /\ Len(result.val.arguments) = 2)
              => result.val.arguments =
                     <<LocalVariable("a", 4, Primitive("Int")),
                       LocalVariable("b", 8, Primitive("Int"))>>

RECURSIVE NegChainTree(_, _, _, _)

\* The tree of the chain lo ops[lo] ... hi whose operand `at` is negated:
\* the tree of the plain chain with Unary(Minus, at) for the leaf at.
NegChainTree(ops, lo, hi, at) ==
    IF lo = hi
    THEN IF lo = at THEN Unary(ExprInteger(lo), "Minus") ELSE ExprInteger(lo)
    ELSE LET k == ChainRoot(ops, lo, hi)
         IN  ClaimNode(NegChainTree(ops, lo, k, at), ops[k],
                       NegChainTree(ops, k + 1, hi, at))

\* C18: the operand of a prefix `-` is the atom after it and never absorbs a
\* following binary operator, `*` and `/` included: `-x op y` is the node of
\* op over Unary(Minus, x) and y, `x op -y` the node over x and
\* Unary(Minus, y), and in a longer chain the negated operand is a leaf.
C18_UnaryMinusBindsAtProduct ==
    (Returns /\ src.form = "unary") =>
        /\ result.st = "Ok"
        /\ result.val = NegChainTree(src.ops, 1, Len(src.ops) + 1, src.at)

\* `-1 * 2` was parsed to Asterisk(Unary(Minus, 1), 2), and `1 / -2` to
\* Slash(1, Unary(Minus, 2)).
C18_Witness ==
    /\ Returns
    /\ src.form = "unary"
    /\ \/ /\ src.ops = <<"Asterisk">>
          /\ src.at = 1
          /\ result.val =
                Binary(Unary(ExprInteger(1), "Minus"), "Asterisk", ExprInteger(2))
       \/ /\ src.ops = <<"Slash">>
          /\ src.at = 2
          /\ result.val =
                Binary(ExprInteger(1), "Slash", Unary(ExprInteger(2), "Minus"))

(***************************************************************************)
(* The code generator, after the specification's section 4.4: an assembly  *)
(* line is the sequence of its mnemonic and operands (an immediate operand *)
(* n of push is written "imm", n), and the emitted text a sequence of      *)
(* lines.                                                                  *)
(***************************************************************************)
\* The System-V integer argument registers, in order.
ArgumentRegisters == <<"rdi", "rsi", "rdx", "rcx", "r8", "r9">>

\* Expression-as-address: rbp - offset is computed and pushed. Only a
\* LocalVariable is an lvalue; for anything else no emission is specified.
gen_lval(e) ==
    IF e.kind = "LocalVariable"
    THEN <<<<"mov", "rax", "rbp">>, <<"sub", "rax", e.offset>>, <<"push", "rax">>>>
    ELSE <<<<"error", "not an lvalue">>>>

\* The operation of a binary operator, from rax and rdi into rax.
gen_operation(op) ==
    CASE op = "Plus" -> <<<<"add", "rax", "rdi">>>>
      [] op = "Minus" -> <<<<"sub", "rax", "rdi">>>>
      [] op = "Asterisk" -> <<<<"imul", "rax", "rdi">>>>
      [] op = "Slash" -> <<<<"cqo">>, <<"idiv", "rdi">>>>
      [] op = "Lt" -> <<<<"cmp", "rax", "rdi">>, <<"setl", "al">>, <<"movzb", "rax", "al">>>>
      [] op = "LtEq" ->
            <<<<"cmp", "rax", "rdi">>, <<"setle", "al">>, <<"movzb", "rax", "al">>>>
      [] op = "Eq" -> <<<<"cmp", "rax", "rdi">>, <<"sete", "al">>, <<"movzb", "rax", "al">>>>
      [] op = "NotEq" ->
            <<<<"cmp", "rax", "rdi">>, <<"setne", "al">>, <<"movzb", "rax", "al">>>>

\* gen_argument_pops leaving the last argument on the stack.
gen_argument_pops_short(k) == [i \in 1..(k - 1) |-> <<"pop", ArgumentRegisters[i]>>]

\* pop rdi; pop rsi; ... for the first k argument registers.
gen_argument_pops(k) == [i \in 1..k |-> <<"pop", ArgumentRegisters[i]>>]

RECURSIVE gen_expr(_), gen_arguments(_)

\* Each argument as a value, in source order.
gen_arguments(arguments) ==
    IF arguments = <<>>
    THEN <<>>
    ELSE gen_expr(Head(arguments)) \o gen_arguments(Tail(arguments))

\* Expression-as-value: code that leaves one word on top of the stack.
gen_expr(e) ==
    CASE e.kind = "Integer" -> <<<<"push", "imm", e.n>>>>
      [] e.kind = "LocalVariable" ->
            gen_lval(e)
            \o <<<<"pop", "rax">>, <<"mov", "rax", "[rax]">>, <<"push", "rax">>>>
      [] e.kind = "Unary" ->
            gen_expr(e.expr) \o <<<<"pop", "rax">>, <<"neg", "rax">>, <<"push", "rax">>>>
      [] e.kind = "Binary" /\ e.op = "Assignment" ->
            gen_lval(e.lhs) \o gen_expr(e.rhs)
            \o <<<<"pop", "rdi">>, <<"pop", "rax">>, <<"mov", "[rax]", "rdi">>,
                 <<"push", "rdi">>>>
      [] e.kind = "Binary" /\ e.op # "Assignment" ->
            gen_expr(e.lhs) \o gen_expr(e.rhs)
            \o <<<<"pop", "rdi">>, <<"pop", "rax">>>>
            \o gen_operation(e.op) \o <<<<"push", "rax">>>>
      [] e.kind = "Call" ->
            gen_arguments(e.arguments)
            \o gen_argument_pops(Len(e.arguments))
            \o <<<<"align", "rsp">>, <<"call", e.callee_name>>, <<"push", "rax">>>>

\* The emitted lines and the label counter after them.
Emitted(code, n) == [code |-> code, n |-> n]

\* Rest applied to what was emitted before it.
After(r, Rest(_)) == Rest(r)

\* pop rax; cmp rax, 0; je <label>_N
gen_branch_on_zero(label, N) ==
    <<<<"pop", "rax">>, <<"cmp", "rax", 0>>, <<"je", label, N>>>>

RECURSIVE FrameOffsets(_), FrameOffsetsOf(_)

\* The offsets of the locals declared in a sequence of statements.
FrameOffsets(stmts) ==
    IF stmts = <<>>
    THEN {}
    ELSE FrameOffsetsOf(Head(stmts)) \cup FrameOffsets(Tail(stmts))

FrameOffsetsOf(s) ==
    CASE s.kind = "InitDeclaration" -> {s.offset}
      [] s.kind = "Block" -> FrameOffsets(s.body)
      [] s.kind = "If" -> FrameOffsetsOf(s.consequence) \cup FrameOffsetsOf(s.alternative)
      [] s.kind = "While" -> FrameOffsetsOf(s.body)
      [] s.kind = "For" -> FrameOffsetsOf(s.init) \cup FrameOffsetsOf(s.body)
      [] OTHER -> {}

\* The frame size of a function: the largest offset of its parameters and
\* locals, rounded up to 16.
FrameSize(f) ==
    LET offsets ==
            {f.arguments[i].offset : i \in 1..Len(f.arguments)}
            \cup FrameOffsets(f.body) \cup {0}
        largest == CHOOSE m \in offsets : \A o \in offsets : o <= m
    IN  ((largest + 15) \div 16) * 16

\* Each parameter register copied into the slot of its parameter.
gen_parameters(arguments) ==
    [i \in 1..Len(arguments) |->
        <<"mov", "[rbp-]", arguments[i].offset, ArgumentRegisters[i]>>]

RECURSIVE gen_stmt(_, _, _), gen_stmts(_, _, _)

\* Each child statement in order.
gen_stmts(stmts, n, fname) ==
    IF stmts = <<>>
    THEN Emitted(<<>>, n)
    ELSE After(gen_stmt(Head(stmts), n, fname),
               LAMBDA first :
                   After(gen_stmts(Tail(stmts), first.n, fname),
                         LAMBDA rest : Emitted(first.code \o rest.code, rest.n)))

\* A statement that may be absent: an else branch, the init or the post of
\* a for statement.
gen_optional(s, n, fname) ==
    IF s = None THEN Emitted(<<>>, n) ELSE gen_stmt(s, n, fname)

\* The emission of a statement of the function fname, n the label counter.
gen_stmt(s, n, fname) ==
    CASE s.kind = "Expression" -> Emitted(gen_expr(s.expr) \o <<<<"pop", "rax">>>>, n)
      [] s.kind = "Return" ->
            Emitted(gen_expr(s.expr) \o <<<<"pop", "rax">>, <<"jmp", ".Lreturn", fname>>>>,
                    n)
      [] s.kind = "Block" -> gen_stmts(s.body, n, fname)
      [] s.kind = "If" ->
            After(gen_stmt(s.consequence, n + 1, fname),
                  LAMBDA t :
                      After(gen_optional(s.alternative, t.n, fname),
                            LAMBDA e :
                                Emitted(gen_expr(s.condition)
                                        \o gen_branch_on_zero(".Lelse", n)
                                        \o t.code
                                        \o <<<<"jmp", ".Lend", n>>, <<"label", ".Lelse", n>>>>
                                        \o e.code
                                        \o <<<<"label", ".Lend", n>>>>,
                                        e.n)))
      [] s.kind = "While" ->
            After(gen_stmt(s.body, n + 1, fname),
                  LAMBDA b :
                      Emitted(<<<<"label", ".Lbegin", n>>>>
                              \o gen_expr(s.condition)
                              \o gen_branch_on_zero(".Lend", n)
                              \o b.code
                              \o <<<<"jmp", ".Lbegin", n>>, <<"label", ".Lend", n>>>>,
                              b.n))
      [] s.kind = "For" ->
            After(gen_optional(s.init, n + 1, fname),
                  LAMBDA i :
                      After(gen_stmt(s.body, i.n, fname),
                            LAMBDA b :
                                After(gen_optional(s.post, b.n, fname),
                                      LAMBDA p :
                                          Emitted(i.code
                                                  \o <<<<"label", ".Lbegin", n>>>>
                                                  \o (IF s.condition = None
                                                      THEN <<>>
                                                      ELSE gen_expr(s.condition)
                                                           \o gen_branch_on_zero(".Lend", n))
                                                  \o b.code
                                                  \o p.code
                                                  \o <<<<"jmp", ".Lbegin", n>>,
                                                       <<"label", ".Lend", n>>>>,
                                                  p.n))))
      [] s.kind = "InitDeclaration" ->
            IF s.init = None
            THEN Emitted(<<>>, n)
            ELSE Emitted(gen_expr(Binary(LocalVariable(s.name, s.offset, s.type_),
                                         "Assignment", s.init)),
                         n)
      [] s.kind = "FunctionDefinition" ->
            After(gen_stmts(s.body, n, s.name),
                  LAMBDA b :
                      Emitted(<<<<"label", s.name>>, <<"push", "rbp">>,
                                <<"mov", "rbp", "rsp">>, <<"sub", "rsp", FrameSize(s)>>>>
                              \o gen_parameters(s.arguments)
                              \o b.code
                              \o <<<<"label", ".Lreturn", s.name>>, <<"mov", "rsp", "rbp">>,
                                   <<"pop", "rbp">>, <<"ret">>>>,
                              b.n))

\* The emission of a program: its statements in order, labels from 0.
gen(program) == gen_stmts(program.statements, 0, "").code

(***************************************************************************)
(* SpecGen: the generator on one expression, emitted as a value or as an   *)
(* Expression statement.                                                   *)
(***************************************************************************)
MaxNest == 2

\* The binary operators of the AST but Assignment.
ValueOperators == {"Plus", "Minus", "Asterisk", "Slash", "Lt", "LtEq", "Eq", "NotEq"}

GenAtoms ==
    {ExprInteger(1), LocalVariable("a", 8, Primitive("Int")), Call("f", <<>>)}

\* The expressions one node above those of `inner`.
GenAbove(inner) ==
    {Unary(e, "Minus") : e \in inner}
    \cup {Binary(e, op, ExprInteger(1)) : e \in inner, op \in ValueOperators}
    \cup {Binary(ExprInteger(1), op, e) : e \in inner, op \in ValueOperators}
    \cup {Binary(e, "Plus", e) : e \in inner}
    \cup {Binary(LocalVariable("a", 8, Primitive("Int")), "Assignment", e) : e \in inner}
    \cup {Call("f", <<e>>) : e \in inner}
    \cup {Call("f", <<ExprInteger(1), e>>) : e \in inner}

RECURSIVE GenExprs(_)

\* The expressions of at most n nodes above an atom.
GenExprs(n) == IF n = 0 THEN GenAtoms ELSE GenAtoms \cup GenAbove(GenExprs(n - 1))

GenSources ==
    {[form |-> "gen", e |-> e, stmt |-> stmt] : e \in GenExprs(MaxNest), stmt \in BOOLEAN}

\* The i-th argument of a call: the integer i, -i or i + 10.
GenArgument(kind, i) ==
    CASE kind = "int" -> ExprInteger(i)
      [] kind = "neg" -> Unary(ExprInteger(i), "Minus")
      [] kind = "sum" -> Binary(ExprInteger(i), "Plus", ExprInteger(10))

\* The calls f(arguments) of as many arguments as there are argument
\* registers, or fewer.
GenCallSources ==
    {[form |-> "gencall", kinds |-> kinds, stmt |-> FALSE,
      e |-> Call("f", [i \in 1..Len(kinds) |-> GenArgument(kinds[i], i)])] :
        kinds \in UNION {[1..k -> {"int", "neg", "sum"}] :
                            k \in 0..Len(ArgumentRegisters)}}

InitGen ==
    /\ src \in GenSources \cup GenCallSources
    /\ Construct(<<>>)
    /\ pc = "call"

\* The expression emitted as a value.
GenExprCall ==
    /\ pc = "call"
    /\ ~src.stmt
    /\ stdout' = stdout \o gen_expr(src.e)
    /\ pc' = "done"
    /\ UNCHANGED <<lexer, current_token, peeked_token, locals, statements, result, src,
                   stderr, exit_code>>

\* The statement Expression(e) emitted.
GenStmtCall ==
    /\ pc = "call"
    /\ src.stmt
    /\ stdout' = stdout \o gen_stmt(StmtExpression(src.e), 0, "main").code
    /\ pc' = "done"
    /\ UNCHANGED <<lexer, current_token, peeked_token, locals, statements, result, src,
                   stderr, exit_code>>

NextGen == GenExprCall \/ GenStmtCall

SpecGen == InitGen /\ [][NextGen]_vars

\* The effect of a line on the depth of the stack, in words.
StackEffect(line) ==
    CASE line[1] = "push" -> 1
      [] line[1] = "pop" -> 0 - 1
      [] OTHER -> 0

RECURSIVE StackDepth(_, _)

\* The depth of the stack after the first k lines, from depth 0.
StackDepth(code, k) ==
    IF k = 0 THEN 0 ELSE StackDepth(code, k - 1) + StackEffect(code[k])

\* C20: the lines emitted for an expression in value mode push once more
\* than they pop and never pop below the depth they started at; the lines
\* emitted for an Expression statement leave the depth as it was.
C20_StackDiscipline ==
    (pc = "done" /\ src.form = "gen") =>
        /\ \A k \in 0..Len(stdout) : StackDepth(stdout, k) >= 0
        /\ StackDepth(stdout, Len(stdout)) = IF src.stmt THEN 0 ELSE 1

\* f(1, -a) was emitted with its five pushes: as a value, ending in
\* `push rax` after four pops, or as a statement, ending in `pop rax`.
C20_Witness ==
    /\ pc = "done"
    /\ src.form = "gen"
    /\ src.e = Call("f", <<ExprInteger(1),
                          Unary(LocalVariable("a", 8, Primitive("Int")), "Minus")>>)
    /\ \/ ~src.stmt /\ stdout[Len(stdout)] = <<"push", "rax">>
       \/ src.stmt /\ stdout[Len(stdout)] = <<"pop", "rax">>
    /\ Cardinality({k \in 1..Len(stdout) : stdout[k][1] = "push"}) = 5

(***************************************************************************)
(* SpecMain: the driver (src/src/main.rs), a statement of main a step and  *)
(* the loop of Parser::parse as in Spec.                                   *)
(***************************************************************************)
\* argv.len() of the run, argv[0] included.
ArgumentCounts == {1, 2, 3}

MainSources ==
    {[form |-> "main", argc |-> argc, program |-> program] :
        argc \in ArgumentCounts,
        program \in UndefSources \cup CallSources \cup ScopeSources}

\* println!(".intel_syntax noprefix"); println!(".global main"); println!("");
PreambleLines == <<<<".intel_syntax noprefix">>, <<".global main">>, <<"">>>>

InitMain ==
    /\ src \in MainSources
    /\ Construct(<<>>)
    /\ pc = "main"

\* if argv.len() != 2 { panic!("Invalid number of arguments"); }
MainArguments ==
    /\ pc = "main"
    /\ pc' = IF src.argc # 2 THEN "panic" ELSE "parse"
    /\ UNCHANGED <<lexer, current_token, peeked_token, locals, statements, result, src,
                   io>>

\* parse::parse(input) up to the loop of Parser::parse.
MainParse ==
    /\ pc = "parse"
    /\ Store(NewParser(ProgramTokens(src.program)))
    /\ statements' = <<>>
    /\ pc' = "loop"
    /\ UNCHANGED <<result, src, io>>

\* MainError writing the message to standard output.
MainError_println ==
    /\ pc = "err"
    /\ stdout' = Append(stdout, result.err)
    /\ pc' = "exit"
    /\ UNCHANGED <<lexer, current_token, peeked_token, locals, statements, result, src,
                   stderr, exit_code>>

\* Err(e) => eprintln!("{}", e)
MainError ==
    /\ pc = "err"
    /\ stderr' = Append(stderr, result.err)
    /\ pc' = "exit"
    /\ UNCHANGED <<lexer, current_token, peeked_token, locals, statements, result, src,
                   stdout, exit_code>>

\* std::process::exit(1)
MainExit ==
    /\ pc = "exit"
    /\ exit_code' = <<1>>
    /\ pc' = "exited"
    /\ UNCHANGED <<lexer, current_token, peeked_token, locals, statements, result, src,
                   stdout, stderr>>

\* A panic: the message on standard error and the exit status 101.
MainPanic ==
    /\ pc = "panic"
    /\ stderr' = Append(stderr, <<"panicked">>)
    /\ exit_code' = <<101>>
    /\ pc' = "exited"
    /\ UNCHANGED <<lexer, current_token, peeked_token, locals, statements, result, src,
                   stdout>>

\* One println! of the preamble.
MainPreamble ==
    /\ pc \in {"done", "preamble"}
    /\ stdout' = Append(stdout, PreambleLines[Len(stdout) + 1])
    /\ pc' = IF Len(stdout') = Len(PreambleLines) THEN "gen" ELSE "preamble"
    /\ UNCHANGED <<lexer, current_token, peeked_token, locals, statements, result, src,
                   stderr, exit_code>>

\* codegen::gen(ast)
MainGen ==
    /\ pc = "gen"
    /\ stdout' = stdout \o gen(result.val)
    /\ pc' = "return"
    /\ UNCHANGED <<lexer, current_token, peeked_token, locals, statements, result, src,
                   stderr, exit_code>>

\* main returns.
MainReturn ==
    /\ pc = "return"
    /\ exit_code' = <<0>>
    /\ pc' = "exited"
    /\ UNCHANGED <<lexer, current_token, peeked_token, locals, statements, result, src,
                   stdout, stderr>>

NextMain ==
    \/ MainArguments
    \/ MainParse
    \/ ParseLoop
    \/ ParseReturn
    \/ MainError
    \/ MainExit
    \/ MainPanic
    \/ MainPreamble
    \/ MainGen
    \/ MainReturn

SpecMain == InitMain /\ [][NextMain]_vars

\* main is sequential code: once parse has returned Err, the eprintln! and
\* the exit that follow it run.
SpecMainLive == SpecMain /\ WF_vars(MainError) /\ WF_vars(MainExit)

\* C19: nothing is on standard output unless parse has returned Ok; when
\* parse returns Err its message is written to standard error and the
\* process exits with status 1, standard output still empty; and the code
\* generator writes only after a successful parse and the whole preamble.
C19_NoOutputBeforeParseOk ==
    /\ [](stdout # <<>> => result.st = "Ok")
    /\ []((result.st = "Err" /\ exit_code # <<>>) =>
              /\ exit_code = <<1>>
              /\ stderr = <<result.err>>
              /\ stdout = <<>>)
    /\ [](result.st = "Err" => <>(exit_code = <<1>>))
    /\ [][stdout' # stdout =>
              \/ pc' \in {"preamble", "gen"} /\ result.st = "Ok"
              \/ /\ pc' = "return"
                 /\ result.st = "Ok"
                 /\ stdout = PreambleLines
                 /\ stdout' = PreambleLines \o gen(result.val)]_vars

\* `u;` with u undeclared: the process has exited with status 1, the
\* message on standard error and nothing on standard output.
C19_Witness ==
    /\ src.form = "main"
    /\ src.program.form = "undef"
    /\ src.program.at = "stmt"
    /\ exit_code = <<1>>
    /\ stderr = <<<<"Undefined variable: ", src.program.name>>>>
    /\ stdout = <<>>

(***************************************************************************)
(* What the emitted lines do to the registers and the stack: the machine   *)
(* that C21 reads `the value in a register` on.                            *)
(***************************************************************************)
MachineStart ==
    [regs |-> [r \in {"rax", "rdi", "rsi", "rdx", "rcx", "r8", "r9"} |-> 0],
     stack |-> <<>>]

\* The machine after one line; the top of the stack is its last element.
MachineStep(m, line) ==
    CASE line[1] = "push" /\ Len(line) = 3 ->
            [m EXCEPT !.stack = Append(@, line[3])]
      [] line[1] = "push" /\ Len(line) = 2 ->
            [m EXCEPT !.stack = Append(@, m.regs[line[2]])]
      [] line[1] = "pop" ->
            [m EXCEPT !.regs[line[2]] = m.stack[Len(m.stack)],
                      !.stack = SubSeq(@, 1, Len(@) - 1)]
      [] line[1] = "neg" -> [m EXCEPT !.regs[line[2]] = 0 - @]
      [] line[1] = "add" -> [m EXCEPT !.regs[line[2]] = @ + m.regs[line[3]]]
      [] OTHER -> m

RECURSIVE MachineAfter(_, _)

\* The machine after the first k lines of code.
MachineAfter(code, k) ==
    IF k = 0 THEN MachineStart ELSE MachineStep(MachineAfter(code, k - 1), code[k])

\* The value of the i-th argument of a call of GenCallSources.
ClaimArgumentValue(kind, i) ==
    CASE kind = "int" -> i
      [] kind = "neg" -> 0 - i
      [] kind = "sum" -> i + 10

\* The index of the line `call f` in the code of a call: `push rax` is all
\* that follows it.
CallLine(code) == Len(code) - 1

\* C21: at the line `call f` emitted for f(arguments), the value of the i-th
\* argument in source order is in the i-th argument register.
C21_ArgumentsInRegisterOrder ==
    (pc = "done" /\ src.form = "gencall") =>
        /\ stdout[CallLine(stdout)] = <<"call", "f">>
        /\ LET m == MachineAfter(stdout, CallLine(stdout) - 1)
           IN  \A i \in 1..Len(src.kinds) :
                   m.regs[ArgumentRegisters[i]] = ClaimArgumentValue(src.kinds[i], i)

(***************************************************************************)
(* The parser on every token stream: short sequences of any tokens, every  *)
(* piece of three programs, and the programs with one token added.         *)
(***************************************************************************)
MaxTokens == 2

\* The tokens the lexer returns before Eof, one of every kind.
AllTokens ==
    {Tok(t) : t \in BinaryOperatorTokens \cup TypeTokens
                    \cup {"LParen", "RParen", "LBrace", "RBrace", "SemiColon",
                          "Comma", "If", "Else", "While", "For", "Return"}}
    \cup {TokInteger(1), TokIdentifier("a")}

\* int f(int a, int b) { return g(a, b + 1); }
\* { 1; { f(1 2,); } }
\* int a = 1; for (a = 0; a < 2; a = a + 1) { if (a) return a; else a; }
BasePrograms ==
    << <<Tok("Int"), TokIdentifier("f"), Tok("LParen"),
         Tok("Int"), TokIdentifier("a"), Tok("Comma"),
         Tok("Int"), TokIdentifier("b"), Tok("RParen"), Tok("LBrace"),
         Tok("Return"), TokIdentifier("g"), Tok("LParen"), TokIdentifier("a"),
         Tok("Comma"), TokIdentifier("b"), Tok("Plus"), TokInteger(1),
         Tok("RParen"), Tok("SemiColon"), Tok("RBrace")>>,
       <<Tok("LBrace"), TokInteger(1), Tok("SemiColon"), Tok("LBrace"),
         TokIdentifier("f"), Tok("LParen"), TokInteger(1), TokInteger(2),
         Tok("Comma"), Tok("RParen"), Tok("SemiColon"), Tok("RBrace"),
         Tok("RBrace")>>,
       <<Tok("Int"), TokIdentifier("a"), Tok("Assignment"), TokInteger(1),
         Tok("SemiColon"), Tok("For"), Tok("LParen"),
         TokIdentifier("a"), Tok("Assignment"), TokInteger(0), Tok("SemiColon"),
         TokIdentifier("a"), Tok("Lt"), TokInteger(2), Tok("SemiColon"),
         TokIdentifier("a"), Tok("Assignment"), TokIdentifier("a"), Tok("Plus"),
         TokInteger(1), Tok("RParen"), Tok("LBrace"),
         Tok("If"), Tok("LParen"), TokIdentifier("a"), Tok("RParen"),
         Tok("Return"), TokIdentifier("a"), Tok("SemiColon"),
         Tok("Else"), TokIdentifier("a"), Tok("SemiColon"), Tok("RBrace")>> >>

ShortSources ==
    {[form |-> "short", tokens |-> tokens] :
        tokens \in UNION {[1..k -> AllTokens] : k \in 0..MaxTokens}}

\* The tokens from..cut of a base program: the whole program, what is left
\* of it when the input ends early, and what the parser sees in mid-program.
PieceSources ==
    UNION {{[form |-> "piece", base |-> base, from |-> from, cut |-> cut] :
                from \in 1..(Len(BasePrograms[base]) + 1),
                cut \in 0..Len(BasePrograms[base])} :
           base \in DOMAIN BasePrograms}

\* A base program with one token of any kind added after its first `at`.
InsertedSources ==
    UNION {{[form |-> "inserted", base |-> base, at |-> at, tok |-> tok] :
                at \in 0..Len(BasePrograms[base]), tok \in AllTokens} :
           base \in DOMAIN BasePrograms}

TokenSources == ShortSources \cup PieceSources \cup InsertedSources

TokensOf(s) ==
    CASE s.form = "short" -> s.tokens
      [] s.form = "piece" -> SubSeq(BasePrograms[s.base], s.from, s.cut)
      [] s.form = "inserted" ->
            SubSeq(BasePrograms[s.base], 1, s.at) \o <<s.tok>>
            \o SubSeq(BasePrograms[s.base], s.at + 1, Len(BasePrograms[s.base]))

InitTokens ==
    /\ src \in TokenSources
    /\ Construct(TokensOf(src))
    /\ pc = "loop"

SpecTokens == InitTokens /\ [][Next]_vars

(***************************************************************************)
(* One iteration of each loop of the parser, from its guard to its end.    *)
(***************************************************************************)
\* parse and parse_block_statement:
\* statements.push(self.parse_statement()?); self.next_token();
parse_step(self) ==
    Try(parse_statement(self), LAMBDA r : Ok(next_token(r.p), r.val))

\* parse_call_expression: one argument and the comma after it.
parse_call_expression_step(self) ==
    Try(parse_expression(next_token(self), Lowest),
        LAMBDA r : Ok(IF r.p.peeked_token.t = "Comma" THEN next_token(r.p) ELSE r.p,
                      r.val))

\* parse_function_declaration: one parameter and the comma after it.
parse_function_declaration_step(self) ==
    Try(parse_type(next_token(self)), LAMBDA t : parse_function_param(t, <<>>))

\* parse_expression: one operator of the infix loop and its right operand.
parse_expression_step(self, expr) ==
    IF self.peeked_token.t \in BinaryOperatorTokens
    THEN parse_binary_expression(next_token(self), expr)
    ELSE Panic(self)

(***************************************************************************)
(* C22.                                                                    *)
(***************************************************************************)
\* The tokens the parser has not consumed, current_token among them.
Remaining(self) ==
    (IF self.current_token = Eof THEN 0 ELSE 1)
    + (IF self.peeked_token = Eof THEN 0 ELSE 1)
    + (Len(self.lexer.input) - self.lexer.pos)

\* An iteration that returned r from self and goes round again has consumed.
Consumes(self, r) == r.st = "Ok" => Remaining(r.p) < Remaining(self)

\* The parser where a loop may find it: the window of the state, and a
\* symbol table that knows the identifiers of the inputs.
LoopState ==
    [Self EXCEPT !.locals = <<LVar("a", 8, Primitive("Int")),
                              LVar("b", 16, Primitive("Int"))>>]

\* Every loop, entered at LoopState with its guard true, consumes a token or
\* returns an error.
IterationsConsume ==
    /\ LoopState.current_token # Eof => Consumes(LoopState, parse_step(LoopState))
    /\ LoopState.current_token.t # "RBrace" =>
           Consumes(LoopState, parse_step(LoopState))
    /\ LoopState.peeked_token.t # "RParen" =>
           /\ Consumes(LoopState, parse_call_expression_step(LoopState))
           /\ Consumes(LoopState, parse_function_declaration_step(LoopState))
    /\ \A precedence \in Lowest..Product :
           (LoopState.peeked_token # Eof /\ precedence < peek_precedence(LoopState)) =>
               Consumes(LoopState, parse_expression_step(LoopState, ExprInteger(0)))

\* More `(` and `{` than `)` and `}`: a block or a list the input never closes.
Unterminated(tokens) ==
    Cardinality({i \in DOMAIN tokens : tokens[i].t \in {"LParen", "LBrace"}})
    > Cardinality({i \in DOMAIN tokens : tokens[i].t \in {"RParen", "RBrace"}})

\* C22: on every finite token stream parse() ends in Ok(Program) or Err; every
\* iteration of its five loops consumes a token or returns an error, every
\* round of the loop of parse leaves fewer tokens, and an input that never
\* closes a block, an argument list or a parameter list ends in Err.
C22_ParseTerminates ==
    /\ [](Finished => pc \in {"done", "err"})
    /\ []IterationsConsume
    /\ [](Finished /\ Unterminated(TokensOf(src)) => pc = "err")
    /\ [][pc' = "loop" => Remaining(Self') < Remaining(Self)]_vars

\* `int f(int a`: the parameter list is never closed, and parse returned Err.
C22_Witness ==
    /\ src = [form |-> "piece", base |-> 1, from |-> 1, cut |-> 5]
    /\ pc = "err"

(***************************************************************************)
(* C23.                                                                    *)
(***************************************************************************)
\* The condition of the infix loop of parse_expression(precedence) at self.
InfixLoopCondition(self, precedence) ==
    self.peeked_token # Eof /\ precedence < peek_precedence(self)

\* C23: no token stream takes parse() to the panic of the infix loop: only
\* the eleven binary operators have a precedence above Lowest, so whenever
\* the condition of the loop holds the peeked token is one of them, and a
\* malformed input ends in Err.
C23_InfixPanicUnreachable ==
    /\ pc # "panic"
    /\ \A token \in AllTokens \cup {Eof} :
           Lowest < get_precedence(token) <=> token.t \in BinaryOperatorTokens
    /\ \A precedence \in Lowest..Product :
           InfixLoopCondition(Self, precedence) =>
               /\ peeked_token.t \in BinaryOperatorTokens
               /\ parse_expression_step(Self, ExprInteger(0)).st # "Panic"

\* `1 +` and nothing more: the loop was entered on `+`, and parse returned Err.
C23_Witness ==
    /\ src = [form |-> "short", tokens |-> <<TokInteger(1), Tok("Plus")>>]
    /\ result.st = "Err"
    /\ pc = "err"

(***************************************************************************)
(* The parse after any number of calls of next_token: the window of the    *)
(* parser wherever it may stand in the input, and the parse from there.    *)
(***************************************************************************)
InitWindow ==
    /\ src \in ShortSources \cup PieceSources
    /\ Construct(TokensOf(src))
    /\ pc = "loop"

\* self.next_token()
NextTokenCall ==
    /\ pc = "loop"
    /\ statements = <<>>
    /\ Store(next_token(Self))
    /\ UNCHANGED <<statements, result, pc, src, io>>

NextWindow == ParseLoop \/ ParseReturn \/ NextTokenCall

SpecWindow == InitWindow /\ [][NextWindow]_vars

(***************************************************************************)
(* C24.                                                                    *)
(***************************************************************************)
\* The i-th token of the lexer's output on input: Eof at and after the end.
LexerOutput(input, i) == IF i <= Len(input) THEN input[i] ELSE Eof

\* Where current_token stands in the lexer's output, counted from what the
\* lexer has read: two tokens are in the window until the input runs out.
WindowIndex(self) ==
    CASE self.current_token = Eof -> Len(self.lexer.input) + 1
      [] self.current_token # Eof /\ self.peeked_token = Eof -> Len(self.lexer.input)
      [] OTHER -> self.lexer.pos - 1

\* current_token and peeked_token are two adjacent tokens of the lexer's
\* output on the input of the run, and the lexer stands right after them.
WindowIsAdjacent(self) ==
    LET k == WindowIndex(self)
        input == TokensOf(src)
    IN  /\ self.lexer.input = input
        /\ k >= 1
        /\ self.current_token = LexerOutput(input, k)
        /\ self.peeked_token = LexerOutput(input, k + 1)
        /\ self.lexer.pos = IF k + 1 <= Len(input) THEN k + 1 ELSE Len(input)

\* One call of next_token moved the window by exactly one token.
WindowShifts ==
    /\ current_token' = peeked_token
    /\ peeked_token' = LexerOutput(TokensOf(src), WindowIndex(Self) + 2)
    /\ locals' = locals
    /\ current_token = Eof => current_token' = Eof /\ peeked_token' = Eof

\* C24: at every point of a parse peeked_token is the token that follows
\* current_token in the lexer's output; a call of next_token makes the old
\* peek current and the next token of the lexer the peek, and after Eof
\* current_token stays Eof.
C24_LookaheadWindow ==
    /\ []WindowIsAdjacent(Self)
    /\ [][NextTokenCall => WindowShifts]_vars

\* The window has been shifted from inside `int f(int a, int b) {...}` to
\* its end: current_token is the closing brace and the peek is Eof.
C24_Witness ==
    /\ src = [form |-> "piece", base |-> 1, from |-> 1, cut |-> 21]
    /\ pc = "loop"
    /\ statements = <<>>
    /\ current_token = Tok("RBrace")
    /\ peeked_token = Eof

(***************************************************************************)
(* Programs that end in a declaration `T a = e;` whose initializer e       *)
(* mentions a: alone, after `int b = 0;`, or after an earlier `int a = 0;`.*)
(***************************************************************************)
SelfInitKinds == {"var", "sum", "minus", "paren", "call"}

SelfInitExprTokens(kind) ==
    CASE kind = "var" -> <<TokIdentifier("a")>>
      [] kind = "sum" -> <<TokIdentifier("a"), Tok("Plus"), TokInteger(1)>>
      [] kind = "minus" -> <<Tok("Minus"), TokIdentifier("a")>>
      [] kind = "paren" -> <<Tok("LParen"), TokIdentifier("a"), Tok("RParen")>>
      [] kind = "call" ->
            <<TokIdentifier("f"), Tok("LParen"), TokIdentifier("a"), Tok("RParen")>>

SelfInitSources ==
    {[form |-> "selfinit", ty |-> ty, e |-> e, before |-> before] :
        ty \in ProgramTypes, e \in SelfInitKinds, before \in {"", "a", "b"}}

SelfInitTokens(s) ==
    (IF s.before = ""
     THEN <<>>
     ELSE <<Tok("Int"), TokIdentifier(s.before), Tok("Assignment"), TokInteger(0),
            Tok("SemiColon")>>)
    \o TypeTokensOf(s.ty) \o <<TokIdentifier("a"), Tok("Assignment")>>
    \o SelfInitExprTokens(s.e) \o <<Tok("SemiColon")>>

InitSelfInit ==
    /\ src \in SelfInitSources
    /\ Construct(SelfInitTokens(src))
    /\ pc = "loop"

SpecSelfInit == InitSelfInit /\ [][Next]_vars

(***************************************************************************)
(* C25.                                                                    *)
(***************************************************************************)
\* The node the identifier a of the initializer e became.
ClaimOccurrence(kind, e) ==
    CASE kind = "var" -> e
      [] kind = "sum" -> e.lhs
      [] kind = "minus" -> e.expr
      [] kind = "paren" -> e
      [] kind = "call" -> e.arguments[1]

\* C25: `T a = e;` with a in e parses, no undefined-variable error raised:
\* a is in the symbol table before e is parsed.  With no earlier declaration
\* of a, the a of e is the LocalVariable of the offset and type the
\* InitDeclaration records.
C25_DeclaredBeforeInitializer ==
    (Finished /\ src.form = "selfinit") =>
        /\ pc = "done"
        /\ LET d == statements[Len(statements)]
               a == ClaimOccurrence(src.e, d.init)
           IN  /\ d.kind = "InitDeclaration"
               /\ d.name = "a"
               /\ d.type_ = src.ty
               /\ a.kind = "LocalVariable"
               /\ a.name = "a"
               /\ src.before # "a" => a.offset = d.offset /\ a.type_ = d.type_

\* `int a = a;` parsed: the declaration and its initializer are both at 8.
C25_Witness ==
    /\ src = [form |-> "selfinit", ty |-> Primitive("Int"), e |-> "var", before |-> ""]
    /\ pc = "done"
    /\ statements = <<InitDeclaration("a", 8, Primitive("Int"),
                                      LocalVariable("a", 8, Primitive("Int")))>>

(***************************************************************************)
(* C26.                                                                    *)
(***************************************************************************)
\* The expression of the i-th argument of a call of CommaSources.
ClaimCommaArgument(kind, i) ==
    CASE kind = "int" -> ExprInteger(i)
      [] kind = "sum" -> Binary(ExprInteger(i), "Plus", ExprInteger(10))
      [] kind = "neg" -> Unary(ExprInteger(i), "Minus")
      [] kind = "paren" -> ExprInteger(i)

\* No argument that follows another without a comma begins with a token the
\* infix loop would take for an operator of the one before.
ArgumentsAreApart(s) ==
    \A i \in 1..(Len(s.kinds) - 1) : s.seps[i] = "none" => s.kinds[i + 1] # "neg"

\* C26: f(arg1 ... argn) parses to Call(f, [arg1, ..., argn]) whether a
\* comma, or nothing, stands after each argument, the last included, as long
\* as no argument set apart by nothing begins with an infix operator: no
\* error for a missing or a trailing comma.
C26_CommasAreOptional ==
    (Returns /\ src.form = "commas" /\ ArgumentsAreApart(src)) =>
        /\ pc = "done"
        /\ result.val =
               Call("f", [i \in 1..Len(src.kinds) |->
                              ClaimCommaArgument(src.kinds[i], i)])

\* `f(1 2)` parsed to Call(f, [1, 2]).
C26_Witness ==
    /\ src = [form |-> "commas", kinds |-> <<"int", "int">>,
              seps |-> <<"none", "none">>]
    /\ pc = "done"
    /\ result.val = Call("f", <<ExprInteger(1), ExprInteger(2)>>)

====
